---- MODULE Spec2Model ----
(***************************************************************************)
(* The real-time synchronisation engine of the dashboard client:           *)
(*   - static/js/dashboard/sseClient.js : connection manager and event     *)
(*     processor (module-level state, one callback per browser event);     *)
(*   - dashboard orchestrator (src/unnamed/part_002): fallback polling     *)
(*     and the visibility handler;                                         *)
(*   - state store (second half of static/js/dashboard/discovery.js, which *)
(*     part_002 imports as state.js).                                      *)
(*                                                                         *)
(* The page is single-threaded: every action below is one callback run to  *)
(* completion.  Timers are untimed: a pending timer may fire at any step.  *)
(* Each function of the code is an operator from a record of the whole     *)
(* program state to the record after the call, so that a handler that      *)
(* calls several functions in sequence is their composition.               *)
(***************************************************************************)
EXTENDS Integers, Sequences, FiniteSets, TLC

(***************************************************************************)
(* Program constants.                                                      *)
(***************************************************************************)
INITIAL_RETRY_DELAY == 1000
MAX_RETRY_DELAY == 30000
\* "Keep last 100 event IDs": the size test of handleEvent
DEDUP_WINDOW == 100

CONNECTED == "connected"
CONNECTING == "connecting"
DISCONNECTED == "disconnected"
ConnectionStatus == {CONNECTED, CONNECTING, DISCONNECTED}

\* loadFromCache: a snapshot older than this is not used (milliseconds)
SEVEN_DAYS == 604800000
\* mergeRealtimeUpdate: "Keep only last 50 events", "Keep only last 10"
\* part_002, visibilitychange listener: the age beyond which data is stale
STALE_AFTER == 30000
REALTIME_EVENTS_MAX == 50
RECENT_ALERTS_MAX == 10

\* the keys of eventHandlers that initSSE fills in
EventTypes ==
    {"device_status", "alert_created", "latency_spike",
     "interface_threshold", "classification_update"}

(***************************************************************************)
(* Bounds of the model.                                                    *)
(***************************************************************************)
\* initSSE calls in one run
MaxInits == 2
\* consecutive failures (handleDisconnect calls) without a successful open
MaxFailures == 7
\* events buffered between two flushes
MaxBuffer == 2
\* distinct event ids the server uses in the connection specifications
MaxId == 1
\* distinct event ids the server uses in the deduplication specification
DedupMaxId == 102
\* times the server resends an id that has left the window (DedupSpec)
MaxResend == 2
\* full refreshes whose "isLoading" reset timer is still pending
MaxRefresh == 1
\* full refreshes whose summary fetch is under way in RaceSpec
MaxPolls == 2
\* clicks on the Start Scan button in one run of the scan page
MaxScanClicks == 2
\* scan progress requests in flight
MaxProgress == 1
\* events buffered between two flushes in the burst specification
MaxBurst == 3
\* distinct event ids the server uses in the burst specification
MaxBurstId == 3

\* listeners subscribed to the store in one run
MaxListeners == 2
\* mergeRealtimeUpdate calls in one run of the store specification
MaxMerges == 2
\* steps of the clock in one run of the store specification
MaxTicks == 1
\* device_status events merged in DevicesSpec
MaxDeviceEvents == 2
\* subscribe calls in NotifySpec
MaxSubscribes == 3
\* steps of the clock in VisibleSpec
MaxElapses == 3
\* scheduleRender calls between two frame callbacks, and the states passed
MaxRenderCalls == 5
MaxRenderState == 3
\* alert_created events merged in AlertsSpec: one more than recent_alerts
\* keeps
MaxAlerts == 11
\* mergeRealtimeUpdate calls in one run of the ring specification
RingMax == 52

\* an event body: BadBody fails JSON.parse, NoId parses to an object with no
\* (or a falsy) event_id, n >= 1 parses to an object with event_id n
BadBody == -1
NoId == 0

(***************************************************************************)
(* State.                                                                  *)
(***************************************************************************)
VARIABLES
    \* sseClient.js module state
    connectionStatus,   \* ConnectionStatus
    eventSource,        \* "null" | "opening" | "open": the referenced transport
    retryDelay,
    retryTimeout,       \* "null" | "armed" | "dead": what the handle refers to
    heartbeatTimeout,   \* "null" | "armed" | "dead"
    debounceTimer,      \* "null" | "armed" | "dead"
    lastEventIds,       \* the Set, as the sequence of its values in insertion order
    eventBuffer,        \* sequence of [eventType, id]
    eventHandlers,      \* 0: {} ; k: the handlers passed to the k-th initSSE
    onConnectionChange, \* 0: null ; k: the callback passed to the k-th initSSE
    \* browser objects the module created and no longer references
    liveTransports,     \* EventSource objects that were not closed
    leakedRetry,        \* [stale, fresh]: pending retry timers whose handle was overwritten
    \* dashboard orchestrator and state store
    pollingInterval,    \* "null" | "armed"
    activeIntervals,    \* polling intervals the browser is running
    viewState,          \* what the orchestrator reads of the store:
                        \* [connectionStatus, stale, isLoading]
    loadingResets,      \* pending "isLoading = false" timers of refreshAll
    renderScheduled,    \* a frame callback of scheduleRender is awaited
    latestState,        \* the state last passed to scheduleRender; 0: null
    animationFrames,    \* frame callbacks of scheduleRender the browser holds
    rh,                 \* history of rendering (not read by the program)
    \* state store
    dashboardState,     \* the state object: a function from its keys to values
    listeners,          \* the listeners array: listener ids in subscription order
    storage,            \* the localStorage item STORAGE_KEY
    now,                \* Date.now(), milliseconds
    fetches,            \* one entry per refreshAll call whose fetches have not all
                        \* ended: for each slice "racing", "late" or "done"
    g,                  \* history of the store (not read by the program)
    \* network scan page (part_001)
    scanPage,           \* its variables and requests, see InitScanPage
    \* history (not read by the program)
    h

vars ==
    <<connectionStatus, eventSource, retryDelay, retryTimeout, heartbeatTimeout,
      debounceTimer, lastEventIds, eventBuffer, eventHandlers, onConnectionChange,
      liveTransports, leakedRetry, pollingInterval, activeIntervals,
      viewState, loadingResets, renderScheduled, latestState, animationFrames, rh,
      dashboardState, listeners, storage, now, fetches, g, scanPage, h>>

\* the program state as one record, at the beginning of a step
Cur ==
    [connectionStatus |-> connectionStatus, eventSource |-> eventSource,
     retryDelay |-> retryDelay, retryTimeout |-> retryTimeout,
     heartbeatTimeout |-> heartbeatTimeout, debounceTimer |-> debounceTimer,
     lastEventIds |-> lastEventIds, eventBuffer |-> eventBuffer,
     eventHandlers |-> eventHandlers, onConnectionChange |-> onConnectionChange,
     liveTransports |-> liveTransports, leakedRetry |-> leakedRetry,
     pollingInterval |-> pollingInterval, activeIntervals |-> activeIntervals,
     viewState |-> viewState, loadingResets |-> loadingResets,
     renderScheduled |-> renderScheduled, latestState |-> latestState,
     animationFrames |-> animationFrames, rh |-> rh,
     dashboardState |-> dashboardState, listeners |-> listeners,
     storage |-> storage, now |-> now, fetches |-> fetches, g |-> g,
     scanPage |-> scanPage,
     h |-> [h EXCEPT !.flushedFrom = <<>>, !.calls = <<>>, !.changes = <<>>,
                     !.intervalOps = <<>>, !.threw = {}]]

Becomes(m) ==
    /\ connectionStatus' = m.connectionStatus
    /\ eventSource' = m.eventSource
    /\ retryDelay' = m.retryDelay
    /\ retryTimeout' = m.retryTimeout
    /\ heartbeatTimeout' = m.heartbeatTimeout
    /\ debounceTimer' = m.debounceTimer
    /\ lastEventIds' = m.lastEventIds
    /\ eventBuffer' = m.eventBuffer
    /\ eventHandlers' = m.eventHandlers
    /\ onConnectionChange' = m.onConnectionChange
    /\ liveTransports' = m.liveTransports
    /\ leakedRetry' = m.leakedRetry
    /\ pollingInterval' = m.pollingInterval
    /\ activeIntervals' = m.activeIntervals
    /\ viewState' = m.viewState
    /\ loadingResets' = m.loadingResets
    /\ renderScheduled' = m.renderScheduled
    /\ latestState' = m.latestState
    /\ animationFrames' = m.animationFrames
    /\ rh' = m.rh
    /\ dashboardState' = m.dashboardState
    /\ listeners' = m.listeners
    /\ storage' = m.storage
    /\ now' = m.now
    /\ fetches' = m.fetches
    /\ g' = m.g
    /\ scanPage' = m.scanPage
    /\ h' = m.h

Range(s) == {s[i] : i \in 1..Len(s)}
Min(a, b) == IF a < b THEN a ELSE b
At(f, i) == IF i \in DOMAIN f THEN f[i] ELSE 0
Put(f, i, v) == [j \in DOMAIN f \cup {i} |-> IF j = i THEN v ELSE f[j]]
Bump(f, i) == Put(f, i, At(f, i) + 1)

(***************************************************************************)
(* History kept beside the program state.                                  *)
(*   initCount        initSSE calls so far                                 *)
(*   failures         handleDisconnect calls since the last successful     *)
(*                    open, reconnect() or the start                       *)
(*   lastDelay        delay of the retry timer armed by the last           *)
(*                    handleDisconnect (0: none yet)                       *)
(*   tornDown         disconnect() was called and neither reconnect() nor  *)
(*                    initSSE since                                        *)
(*   downSince        the status changed to DISCONNECTED and has not       *)
(*                    changed to CONNECTED since                           *)
(*   retryStale, hbStale   the timer the handle refers to was armed before *)
(*                    the latest initSSE                                   *)
(*   frameSinceArm    a frame arrived on the transport since the heartbeat *)
(*                    timer was last armed                                 *)
(*   dispatchCount    handler invocations per event id                     *)
(*   evictCount       evictions from lastEventIds per event id             *)
(*   insertedAt       per id, the number of the insertion that put it in   *)
(*                    lastEventIds last; insertClock counts insertions     *)
(*   evictedStamp     insertedAt of the id evicted last (0: none)          *)
(*   last             the callback or call that made the last step; for a  *)
(*                    named event what handleEvent did with it: "passed",  *)
(*                    "duplicate" or "parse_error"                         *)
(*   lastId, lastHit  after a named event: its id, and whether the id was  *)
(*                    in lastEventIds when it arrived                      *)
(*   lastStale        the last step was the firing of a timer armed before *)
(*                    the latest initSSE                                   *)
(*   resent           events sent with an id that had left the window      *)
(*   flushedFrom, calls   after a flush: the buffer it found and the       *)
(*                    handler invocations it made, in order                *)
(*   changes          the changes of connectionStatus the step made, in    *)
(*                    order, each as <<from, to>>                          *)
(*   threw            after a flush: the numbers of the invocations in     *)
(*                    calls that threw                                     *)
(*   intervalOps      the setInterval and clearInterval calls the step     *)
(*                    made for the polling loop, in order                  *)
(* last, lastId, lastHit, lastStale, flushedFrom, calls, threw, changes    *)
(* and intervalOps describe the last step only.                            *)
(* The per-id counters are functions on the ids seen so far; At reads one  *)
(* with 0 for an id not seen, Bump adds to one.                            *)
(***************************************************************************)
InitHistory ==
    [initCount |-> 0, failures |-> 0, lastDelay |-> 0, tornDown |-> FALSE,
     downSince |-> FALSE, retryStale |-> FALSE, hbStale |-> FALSE,
     frameSinceArm |-> FALSE,
     dispatchCount |-> <<>>, evictCount |-> <<>>,
     insertedAt |-> <<>>, insertClock |-> 0, evictedStamp |-> 0,
     last |-> "start", lastId |-> NoId, lastHit |-> FALSE, lastStale |-> FALSE,
     resent |-> 0, flushedFrom |-> <<>>, calls |-> <<>>, changes |-> <<>>,
     intervalOps |-> <<>>, threw |-> {}]

(***************************************************************************)
(* State store (discovery.js).                                             *)
(*                                                                         *)
(* Values: a slice that is null is Null; a number that is null or missing  *)
(* is NoField; a string that is missing or empty is NoString (both are     *)
(* falsy for the code); lastUpdated null is NoDate.  Percentages are kept  *)
(* in tenths and latencies in hundredths of a millisecond, the precision   *)
(* the code rounds them to.                                                *)
(***************************************************************************)
Null == <<>>
NoField == -1
NoString == ""
NoDate == 0

\* the own properties of dashboardState
OwnKeys ==
    {"summary", "trends", "topProblems", "inventory", "alerts", "lastUpdated",
     "isLoading", "error", "connectionStatus", "lastEventId", "realtimeEvents",
     "realtimeInterfaces", "networkIOTrend"}

\* property names dashboardState inherits from Object.prototype, for which
\* the "in" operator is true as well
InheritedKeys == {"constructor", "toString", "valueOf", "hasOwnProperty"}

\* the slices saveToCache writes and loadFromCache reads
CacheKeys ==
    {"summary", "trends", "topProblems", "inventory", "realtimeInterfaces",
     "networkIOTrend"}

InitialState ==
    [summary |-> Null, trends |-> Null, topProblems |-> Null, inventory |-> Null,
     alerts |-> Null, lastUpdated |-> NoDate, isLoading |-> FALSE, error |-> Null,
     connectionStatus |-> DISCONNECTED, lastEventId |-> Null,
     realtimeEvents |-> <<>>, realtimeInterfaces |-> Null, networkIOTrend |-> Null]

\* localStorage.getItem gives null; the item is not JSON or not a snapshot
NoItem == [item |-> "null"]
Corrupt == [item |-> "corrupt"]

(***************************************************************************)
(* History of the store, describing the last call of a store function:     *)
(*   last            "start", "load", "subscribe", "unsubscribe",          *)
(*                   "update", "merge", or "tick" when time passed         *)
(*   key, data       the key or event type and the value passed            *)
(*   ret             what loadFromCache returned                           *)
(*   notified        the listeners invoked by the call, in order           *)
(*   seen            the state they were invoked with (Null: none was)     *)
(*   fns, regs       fns[r] is the function the r-th subscribe call        *)
(*                   registered; regs holds, in order, the numbers of the  *)
(*                   subscribe calls whose returned function has not been  *)
(*                   called yet (kept by the actions SubscribeCall and     *)
(*                   UnsubscribeCall only)                                 *)
(*   saved           setItem was called and succeeded                      *)
(*   quotaExceeded   (input) setItem throws during the call                *)
(*   leaving         (input) the listeners that, when invoked during the   *)
(*                   call, call the function their subscribe call returned *)
(*   merges, ticks   calls of mergeRealtimeUpdate and steps of the clock   *)
(*   writes          the writes to the summary slice, oldest first: a      *)
(*                   record [by |-> "poll", summary |-> s] for a response  *)
(*                   that won its race and [by |-> "push", state |-> st]   *)
(*                   for a device_status event (kept by the actions        *)
(*                   SummaryResponse and DeviceStatusEvent only)           *)
(***************************************************************************)
InitStoreHistory ==
    [last |-> "start", key |-> NoString, data |-> NoString, ret |-> FALSE,
     notified |-> <<>>, seen |-> Null, fns |-> <<>>, regs |-> <<>>,
     saved |-> FALSE, quotaExceeded |-> FALSE, merges |-> 0, ticks |-> 0,
     writes |-> <<>>, leaving |-> {}]

\* key in dashboardState
hasKey(state, key) == key \in DOMAIN state \cup InheritedKeys

subscribe(m, listener) == [m EXCEPT !.listeners = Append(@, listener)]

\* listeners.indexOf(listener), counting from 1: 0 when it is not held
indexOf(seq, x) ==
    LET at == {i \in 1..Len(seq) : seq[i] = x}
    IN  IF at = {} THEN 0 ELSE CHOOSE i \in at : \A j \in at : i <= j

\* listeners.splice(index, 1)
splice(seq, index) == SubSeq(seq, 1, index - 1) \o SubSeq(seq, index + 1, Len(seq))

\* the function subscribe(listener) returned: indexOf, then splice
unsubscribe(m, listener) ==
    LET index == indexOf(m.listeners, listener)
    IN  IF index > 0 THEN [m EXCEPT !.listeners = splice(@, index)] ELSE m

\* variant: the listeners are called last subscribed first
notifyListeners_Reversed(m) ==
    [m EXCEPT !.g.notified =
                  @ \o [i \in 1..Len(m.listeners) |->
                           m.listeners[Len(m.listeners) + 1 - i]],
              !.g.seen = IF m.listeners # <<>> THEN m.dashboardState ELSE @]

\* variant: only the first listener is called
notifyListeners_FirstOnly(m) ==
    [m EXCEPT !.g.notified = @ \o SubSeq(m.listeners, 1, Min(1, Len(m.listeners)))]

\* Array.prototype.forEach over listeners from index i on: the element at
\* each index is read when the index is reached, so that a splice made by
\* the listener just invoked moves the next element under the index that
\* has been visited.  A listener in m.g.leaving calls the function its
\* subscribe call returned; the others return without touching the store.
RECURSIVE forEachListener(_, _)
forEachListener(m, i) ==
    IF i > Len(m.listeners)
    THEN m
    ELSE LET listener == m.listeners[i]
             m1 == [m EXCEPT !.g.notified = Append(@, listener)]
         IN  forEachListener(IF listener \in m.g.leaving
                             THEN unsubscribe(m1, listener) ELSE m1, i + 1)

\* listeners.forEach(listener => listener(dashboardState)), for listeners
\* that return normally (scheduleRender, the one part_002 subscribes, does)
notifyListeners(m) ==
    [forEachListener(m, 1) EXCEPT
        !.g.seen = IF m.listeners # <<>> THEN m.dashboardState ELSE @]

\* saveToCache(): JSON.stringify and a later JSON.parse give back the same
\* timestamp and slices (they hold JSON values only); an exception of
\* setItem is caught and the item stays as it was
saveToCache(m) ==
    IF m.g.quotaExceeded
    THEN m
    ELSE [m EXCEPT
            !.storage = [timestamp |-> m.now,
                         data |-> [k \in CacheKeys |-> m.dashboardState[k]]],
            !.g.saved = TRUE]

updateState(m, key, data) ==
    IF hasKey(m.dashboardState, key)
    THEN LET m1 == [m EXCEPT !.dashboardState =
                        Put(Put(@, key, data), "lastUpdated", m.now)]
         IN  saveToCache(notifyListeners(m1))
    ELSE m

\* variant: a snapshot exactly 7 days old is not used either
loadFromCache_Strict(m) ==
    LET raw == m.storage
    IN  IF raw = NoItem \/ raw = Corrupt
        THEN [m EXCEPT !.g.ret = FALSE]
        ELSE IF m.now - raw.timestamp >= SEVEN_DAYS
        THEN [m EXCEPT !.g.ret = FALSE]
        ELSE [m EXCEPT
                !.dashboardState =
                    [k \in DOMAIN @ |->
                        IF k \in CacheKeys /\ raw.data[k] # Null THEN raw.data[k]
                        ELSE IF k = "lastUpdated" THEN raw.timestamp
                        ELSE @[k]],
                !.g.ret = TRUE]

\* loadFromCache(): false when there is no item, when JSON.parse or the
\* access to the snapshot throws, and when the snapshot is too old
loadFromCache(m) ==
    LET raw == m.storage
    IN  IF raw = NoItem \/ raw = Corrupt
        THEN [m EXCEPT !.g.ret = FALSE]
        ELSE IF m.now - raw.timestamp > SEVEN_DAYS
        THEN [m EXCEPT !.g.ret = FALSE]
        ELSE [m EXCEPT
                !.dashboardState =
                    [k \in DOMAIN @ |->
                        IF k \in CacheKeys /\ raw.data[k] # Null THEN raw.data[k]
                        ELSE IF k = "lastUpdated" THEN raw.timestamp
                        ELSE @[k]],
                !.g.ret = TRUE]

\* variant: no floor
Max_Second(a, b) == b

Max(a, b) == IF a > b THEN a ELSE b

\* variant: the severity is compared as it was sent
ToLowerCase_Identity(str) == str

\* String.prototype.toLowerCase on the severities the server sends
ToLowerCase(str) ==
    CASE str = "CRITICAL" -> "critical"
      [] str = "Critical" -> "critical"
      [] str = "WARNING" -> "warning"
      [] str = "Warning" -> "warning"
      [] str = "INFO" -> "info"
      [] str = "MAJOR" -> "major"
      [] OTHER -> str

\* Math.round(x) for x = num / den >= 0
Round(num, den) == (2 * num + den) \div (2 * den)

\* case 'device_status' of mergeRealtimeUpdate, on summary.devices
mergeDeviceStatus(devices, payload) ==
    LET isDown == payload.new_state \in {"CRITICAL", "down"}
        isUp == payload.new_state \in {"OK", "up"}
        inc(x) == IF x # NoField THEN x + 1 ELSE x
        dec(x) == IF x # NoField THEN Max(0, x - 1) ELSE x
        d1 == IF isDown
              THEN [devices EXCEPT !.offline = inc(@), !.down = inc(@),
                                   !.online = dec(@), !.up = dec(@)]
              ELSE IF isUp
              THEN [devices EXCEPT !.online = inc(@), !.up = inc(@),
                                   !.offline = dec(@), !.down = dec(@)]
              ELSE devices
        total == IF d1.total # NoField THEN d1.total ELSE 0
        online == IF d1.online # NoField THEN d1.online
                  ELSE IF d1.up # NoField THEN d1.up ELSE 0
        percent == IF total > 0 THEN Round(online * 1000, total) ELSE 0
    IN  [d1 EXCEPT
            !.online_percent =
                IF @ # NoField \/ d1.up_percent = NoField THEN percent ELSE @,
            !.up_percent = percent]

\* case 'alert_created', on summary.active_alerts
mergeAlertCounts(alerts, payload) ==
    LET severity == ToLowerCase(IF payload.severity # NoString
                                THEN payload.severity ELSE "INFO")
        inc(x) == (IF x # NoField THEN x ELSE 0) + 1
    IN  IF severity = "critical" THEN [alerts EXCEPT !.critical = inc(@)]
        ELSE IF severity = "warning" THEN [alerts EXCEPT !.warning = inc(@)]
        ELSE [alerts EXCEPT !.info = inc(@)]

\* case 'latency_spike', on summary.network_health
mergeLatency(health, payload) ==
    IF payload.latency_ms # 0
    THEN LET currentAvg == IF health.avg_latency_ms # NoField
                           THEN health.avg_latency_ms ELSE 0
         IN  [health EXCEPT !.avg_latency_ms =
                 Round(8 * currentAvg + 2 * (100 * payload.latency_ms), 10)]
    ELSE health

mergeSummary(summary, eventType, payload) ==
    IF eventType = "device_status" /\ summary.devices # Null
    THEN [summary EXCEPT !.devices = mergeDeviceStatus(@, payload)]
    ELSE IF eventType = "alert_created" /\ summary.active_alerts # Null
    THEN [summary EXCEPT !.active_alerts = mergeAlertCounts(@, payload)]
    ELSE IF eventType = "latency_spike" /\ summary.network_health # Null
    THEN [summary EXCEPT !.network_health = mergeLatency(@, payload)]
    ELSE summary

\* the record of an alert that is put in front of topProblems.recent_alerts
mergeRecentAlerts(topProblems, payload, time) ==
    LET newAlert ==
            [device_ip |-> payload.device_ip,
             message |-> IF payload.message # NoString THEN payload.message
                         ELSE <<payload.metric_name, " alert">>,
             severity |-> IF payload.severity # NoString THEN payload.severity
                          ELSE "WARNING",
             time |-> time]
        recent == IF topProblems.recent_alerts = Null THEN <<>>
                  ELSE topProblems.recent_alerts
        all == <<newAlert>> \o recent
    IN  [topProblems EXCEPT !.recent_alerts =
            SubSeq(all, 1, Min(Len(all), RECENT_ALERTS_MAX))]

\* variant: on overflow the newest entry is dropped
unshiftCapped_DropNewest(events, event) ==
    LET all == <<event>> \o events
    IN  IF Len(all) > REALTIME_EVENTS_MAX THEN events ELSE all

\* realtimeEvents.unshift(event), then pop() when more than 50 are held
unshiftCapped(events, event) ==
    LET all == <<event>> \o events
    IN  IF Len(all) > REALTIME_EVENTS_MAX
        THEN SubSeq(all, 1, Len(all) - 1) ELSE all

\* mergeRealtimeUpdate(eventType, payload), for a payload whose fields have
\* the types the code expects; it does not call saveToCache
mergeRealtimeUpdate(m, eventType, payload) ==
    LET state == m.dashboardState
        event == [type |-> eventType, payload |-> payload, timestamp |-> m.now]
        kept == unshiftCapped(state.realtimeEvents, event)
        summary == IF state.summary # Null
                   THEN mergeSummary(state.summary, eventType, payload)
                   ELSE state.summary
        topProblems == IF eventType = "alert_created" /\ state.topProblems # Null
                       THEN mergeRecentAlerts(state.topProblems, payload, m.now)
                       ELSE state.topProblems
    IN  notifyListeners(
            [m EXCEPT !.dashboardState =
                          [@ EXCEPT !.realtimeEvents = kept,
                                    !.summary = summary,
                                    !.topProblems = topProblems,
                                    !.lastUpdated = m.now],
                      !.g.merges = @ + 1])

(***************************************************************************)
(* Orchestrator (part_002).  The connection specifications keep of the     *)
(* store what the orchestrator reads through getState() and the            *)
(* onConnectionChange callback writes: viewState.stale says that           *)
(* lastUpdated is null or more than 30 s old.                              *)
(***************************************************************************)
\* updateState(key, data) as the orchestrator sees it: the slice is replaced
\* and lastUpdated is stamped (the data is fresh again)
updateView(m, key, data) ==
    IF key \in DOMAIN m.viewState
    THEN [m EXCEPT !.viewState = [@ EXCEPT ![key] = data, !.stale = FALSE]]
    ELSE m

\* variant: startPollingFallback without the 'already polling' guard
startPollingFallback_NoGuard(m) ==
    [m EXCEPT !.pollingInterval = "armed", !.activeIntervals = @ + 1,
              !.h.intervalOps = Append(@, "setInterval")]

startPollingFallback(m) ==
    IF m.pollingInterval # "null"
    THEN m
    ELSE [m EXCEPT !.pollingInterval = "armed", !.activeIntervals = @ + 1,
                   !.h.intervalOps = Append(@, "setInterval")]

\* variant: stopPollingFallback that leaves the interval running
stopPollingFallback_Never(m) == m

stopPollingFallback(m) ==
    IF m.pollingInterval = "null"
    THEN m
    ELSE [m EXCEPT !.pollingInterval = "null", !.activeIntervals = @ - 1,
                   !.h.intervalOps = Append(@, "clearInterval")]

\* refreshAll as the connection specifications see it: isLoading is set (which stamps
\* lastUpdated), the six fetches are started and the 2 s timer that resets
\* isLoading is armed
refreshView(m) ==
    [updateView(m, "isLoading", TRUE) EXCEPT !.loadingResets = @ + 1]

\* variant: only the statuses that start or stop polling reach the store
dashOnConnectionChange_Polling(m, status) ==
    IF status = DISCONNECTED
    THEN startPollingFallback(updateView(m, "connectionStatus", status))
    ELSE IF status = CONNECTED
    THEN stopPollingFallback(updateView(m, "connectionStatus", status))
    ELSE m

\* variant: polling is stopped as soon as a connection is attempted
dashOnConnectionChange_StopEarly(m, status) ==
    LET m1 == updateView(m, "connectionStatus", status)
    IN  IF status = DISCONNECTED THEN startPollingFallback(m1)
        ELSE stopPollingFallback(m1)

\* the onConnectionChange callback initDashboard passes to initSSE
dashOnConnectionChange(m, status) ==
    LET m1 == updateView(m, "connectionStatus", status)
    IN  IF status = DISCONNECTED THEN startPollingFallback(m1)
        ELSE IF status = CONNECTED THEN stopPollingFallback(m1)
        ELSE m1

\* the visibilitychange listener, for visibilityState = 'visible'
onVisible(m) ==
    LET state == m.viewState
        m1 == IF state.stale THEN refreshView(m) ELSE m
    IN  IF state.connectionStatus = DISCONNECTED
        THEN startPollingFallback(m1)
        ELSE m1

(***************************************************************************)
(* Full refresh (part_002 refreshAll) on the state store.  Each of the six *)
(* fetches is a race between the response and a 15 s timer:                *)
(*   "racing"  neither the response nor the timer has come                 *)
(*   "late"    the timer came first; the response is still awaited         *)
(*   "done"    the response came, as a value or as a failure               *)
(***************************************************************************)
\* the JSON value an endpoint answers with
Response(key) == [fetched |-> key]

\* refreshAll(): isLoading is set, the six fetches are started and the 2 s
\* timer that resets isLoading is armed
refreshAll(m) ==
    [updateState(m, "isLoading", TRUE) EXCEPT
        !.fetches = Append(@, [k \in CacheKeys |-> "racing"]),
        !.loadingResets = @ + 1]

\* a refreshAll call all of whose fetches have ended is forgotten
ended(m, i) ==
    IF \A k \in CacheKeys : m.fetches[i][k] = "done"
    THEN [m EXCEPT !.fetches = SubSeq(@, 1, i - 1) \o SubSeq(@, i + 1, Len(@))]
    ELSE m

\* variant: a response that comes after the timer is stored as well
fetchResolved_Late(m, i, key, value) ==
    ended(updateState([m EXCEPT !.fetches[i][key] = "done"], key, value), i)

\* variant: a response is dropped when an event was merged before it came
fetchResolved_KeepPushed(m, i, key, value) ==
    LET m1 == [m EXCEPT !.fetches[i][key] = "done"]
    IN  ended(IF m.fetches[i][key] = "racing"
                  /\ m.dashboardState.realtimeEvents = <<>>
              THEN updateState(m1, key, value)
              ELSE m1, i)

\* the fetch of slice key of the i-th refresh answers with value: the then
\* callback stores it unless the timer has settled the race before
fetchResolved(m, i, key, value) ==
    LET m1 == [m EXCEPT !.fetches[i][key] = "done"]
    IN  ended(IF m.fetches[i][key] = "racing" THEN updateState(m1, key, value)
              ELSE m1, i)

\* the fetch fails (network error, status not ok, body not JSON): the catch
\* callback reports it unless the timer has settled the race before
fetchRejected(m, i, key) == ended([m EXCEPT !.fetches[i][key] = "done"], i)

\* the 15 s timer of a fetch that has not answered fires: the race is
\* rejected and the catch callback reports it
fetchTimedOut(m, i, key) == [m EXCEPT !.fetches[i][key] = "late"]

\* the order in which refreshAll starts the fetches
FetchOrder ==
    <<"summary", "topProblems", "trends", "inventory", "realtimeInterfaces",
      "networkIOTrend">>

\* the callback of the 2 s timer of refreshAll
loadingReset(m) ==
    updateState([m EXCEPT !.loadingResets = @ - 1], "isLoading", FALSE)

\* the onConnectionChange callback initDashboard passes to initSSE, on the
\* state store
handleConnectionChange(m, status) ==
    LET m1 == updateState(m, "connectionStatus", status)
    IN  IF status = DISCONNECTED THEN startPollingFallback(m1)
        ELSE IF status = CONNECTED THEN stopPollingFallback(m1)
        ELSE m1

\* variant: data exactly 30 s old is refreshed as well
isStale_AtThreshold(m) ==
    LET lastUpdated == m.dashboardState.lastUpdated
    IN  m.now - (IF lastUpdated # NoDate THEN lastUpdated ELSE 0) >= STALE_AFTER

\* now - lastUpdate > 30000, where lastUpdate is 0 when lastUpdated is null
isStale(m) ==
    LET lastUpdated == m.dashboardState.lastUpdated
    IN  m.now - (IF lastUpdated # NoDate THEN lastUpdated ELSE 0) > STALE_AFTER

\* the visibilitychange listener, for visibilityState = 'visible', on the
\* state store
onVisibilityChange(m) ==
    LET state == m.dashboardState
        m1 == IF isStale(m) THEN refreshAll(m) ELSE m
    IN  IF state.connectionStatus = DISCONNECTED
        THEN startPollingFallback(m1)
        ELSE m1

(***************************************************************************)
(* Batched rendering (part_002 scheduleRender).  A state passed to         *)
(* scheduleRender is a number from 1; 0 is null.                           *)
(* History of rendering:                                                   *)
(*   last       "start", "schedule" or "frame": the last step              *)
(*   calls      scheduleRender calls since the last frame callback         *)
(*   batched    the value of calls when the last frame callback began      *)
(*   passed     the state passed to the last scheduleRender call           *)
(*   renders    renderAll invocations made by the last frame callback      *)
(*   rendered   the state the last renderAll was invoked with              *)
(***************************************************************************)
InitRenderHistory ==
    [last |-> "start", calls |-> 0, batched |-> 0, passed |-> 0, renders |-> 0,
     rendered |-> 0]

\* variant: every call asks for a frame callback
scheduleRender_NoGuard(m, state) ==
    [m EXCEPT !.latestState = state, !.renderScheduled = TRUE,
              !.animationFrames = @ + 1]

scheduleRender(m, state) ==
    LET m1 == [m EXCEPT !.latestState = state]
    IN  IF m1.renderScheduled THEN m1
        ELSE [m1 EXCEPT !.renderScheduled = TRUE, !.animationFrames = @ + 1]

\* renderAll(state), of which only the invocation is kept
renderAll(m, state) == [m EXCEPT !.rh.renders = @ + 1, !.rh.rendered = state]

\* the callback scheduleRender passed to requestAnimationFrame
onAnimationFrame(m) ==
    LET m1 == [m EXCEPT !.renderScheduled = FALSE]
    IN  IF m1.latestState # 0 THEN renderAll(m1, m1.latestState) ELSE m1

(***************************************************************************)
(* Connection manager (sseClient.js).                                      *)
(***************************************************************************)
setConnectionStatus(m, status) ==
    IF m.connectionStatus = status
    THEN m
    ELSE LET m1 == [m EXCEPT !.connectionStatus = status,
                             !.h.changes = Append(@, <<m.connectionStatus, status>>),
                             !.h.downSince =
                                 IF status = DISCONNECTED THEN TRUE
                                 ELSE IF status = CONNECTED THEN FALSE
                                 ELSE @]
         IN  IF m1.onConnectionChange = 0
             THEN m1
             ELSE dashOnConnectionChange(m1, status)

\* clearTimeout(heartbeatTimeout); heartbeatTimeout = setTimeout(...)
resetHeartbeatTimeout(m) ==
    [m EXCEPT !.heartbeatTimeout = "armed",
              !.h.hbStale = FALSE, !.h.frameSinceArm = FALSE]

\* eventSource.close() when eventSource is set
closeTransport(m) ==
    IF m.eventSource # "null"
    THEN [m EXCEPT !.liveTransports = @ - 1]
    ELSE m

\* variant: connect() that does not close the existing transport
connect_NoClose(m) ==
    LET m2 == setConnectionStatus(m, CONNECTING)
    IN  [m2 EXCEPT !.eventSource = "opening", !.liveTransports = @ + 1]

\* connect(): new EventSource(SSE_ENDPOINT) does not throw for this constant
\* URL, so the catch branch is not taken
connect(m) ==
    LET m1 == closeTransport(m)
        m2 == setConnectionStatus(m1, CONNECTING)
    IN  [m2 EXCEPT !.eventSource = "opening", !.liveTransports = @ + 1]

\* variant: handleDisconnect that does not double retryDelay
handleDisconnect_NoBackoff(m) ==
    LET m1 == [closeTransport(m) EXCEPT !.eventSource = "null"]
        m2 == setConnectionStatus(m1, DISCONNECTED)
        held == m2.retryTimeout = "armed"
    IN  [m2 EXCEPT
            !.heartbeatTimeout = IF @ = "armed" THEN "dead" ELSE @,
            !.leakedRetry =
                IF ~held THEN @
                ELSE IF m2.h.retryStale THEN [@ EXCEPT !.stale = @ + 1]
                ELSE [@ EXCEPT !.fresh = @ + 1],
            !.retryTimeout = "armed",
            !.h.retryStale = FALSE,
            !.h.lastDelay = m2.retryDelay,
            !.h.failures = Min(@ + 1, MaxFailures)]

\* variant: handleDisconnect that arms no retry timer
handleDisconnect_NoRetry(m) ==
    LET m1 == [closeTransport(m) EXCEPT !.eventSource = "null"]
        m2 == setConnectionStatus(m1, DISCONNECTED)
    IN  [m2 EXCEPT
            !.heartbeatTimeout = IF @ = "armed" THEN "dead" ELSE @,
            !.h.lastDelay = m2.retryDelay,
            !.h.failures = Min(@ + 1, MaxFailures),
            !.retryDelay = Min(@ * 2, MAX_RETRY_DELAY)]

\* handleDisconnect(): the retry handle is overwritten without clearTimeout,
\* so a timer it still referred to stays pending in the browser
handleDisconnect(m) ==
    LET m1 == [closeTransport(m) EXCEPT !.eventSource = "null"]
        m2 == setConnectionStatus(m1, DISCONNECTED)
        held == m2.retryTimeout = "armed"
    IN  [m2 EXCEPT
            !.heartbeatTimeout = IF @ = "armed" THEN "dead" ELSE @,
            !.leakedRetry =
                IF ~held THEN @
                ELSE IF m2.h.retryStale THEN [@ EXCEPT !.stale = @ + 1]
                ELSE [@ EXCEPT !.fresh = @ + 1],
            !.retryTimeout = "armed",
            !.h.retryStale = FALSE,
            !.h.lastDelay = m2.retryDelay,
            !.h.failures = Min(@ + 1, MaxFailures),
            !.retryDelay = Min(@ * 2, MAX_RETRY_DELAY)]

\* variant: onopen that leaves the heartbeat timer as it is
onopen_NoHeartbeat(m) ==
    LET m1 == setConnectionStatus(m, CONNECTED)
    IN  [m1 EXCEPT !.eventSource = "open",
                   !.retryDelay = INITIAL_RETRY_DELAY,
                   !.h.failures = 0]

\* eventSource.onopen
onopen(m) ==
    LET m1 == setConnectionStatus(m, CONNECTED)
    IN  resetHeartbeatTimeout(
            [m1 EXCEPT !.eventSource = "open",
                       !.retryDelay = INITIAL_RETRY_DELAY,
                       !.h.failures = 0])

\* disconnect(): clearTimeout of the three handles, close, DISCONNECTED
disconnect(m) ==
    LET m1 == [m EXCEPT
                  !.retryTimeout = IF @ = "armed" THEN "dead" ELSE @,
                  !.heartbeatTimeout = IF @ = "armed" THEN "dead" ELSE @,
                  !.debounceTimer = IF @ = "armed" THEN "dead" ELSE @]
        m2 == [closeTransport(m1) EXCEPT !.eventSource = "null"]
    IN  [setConnectionStatus(m2, DISCONNECTED) EXCEPT !.h.tornDown = TRUE]

reconnect(m) ==
    LET m1 == disconnect(m)
    IN  connect([m1 EXCEPT !.retryDelay = INITIAL_RETRY_DELAY,
                           !.h.failures = 0, !.h.tornDown = FALSE])

\* initSSE(options): options is the handler set of this call
initSSE(m, options) ==
    connect([m EXCEPT
                !.eventHandlers = options,
                !.onConnectionChange = options,
                !.leakedRetry = [stale |-> @.stale + @.fresh, fresh |-> 0],
                !.h.initCount = @ + 1,
                !.h.tornDown = FALSE,
                !.h.retryStale = (m.retryTimeout = "armed"),
                !.h.hbStale = (m.heartbeatTimeout = "armed")])

(***************************************************************************)
(* Event processor (sseClient.js).                                         *)
(***************************************************************************)
\* variant: the newest id is deleted instead of the oldest
trackEventId_EvictLast(m, id) ==
    LET added == IF id \in Range(m.lastEventIds) THEN m.lastEventIds
                 ELSE Append(m.lastEventIds, id)
        m1 == [m EXCEPT !.lastEventIds = added,
                        !.h.insertClock = @ + 1,
                        !.h.insertedAt = Put(@, id, m.h.insertClock + 1)]
        lastId == added[Len(added)]
    IN  IF Len(added) > DEDUP_WINDOW
        THEN [m1 EXCEPT !.lastEventIds = SubSeq(added, 1, Len(added) - 1),
                        !.h.evictCount = Bump(@, lastId),
                        !.h.evictedStamp = At(m1.h.insertedAt, lastId)]
        ELSE m1

\* lastEventIds.add(id), then the size test: the first value in insertion
\* order is deleted when more than DEDUP_WINDOW values are held
trackEventId(m, id) ==
    LET added == IF id \in Range(m.lastEventIds) THEN m.lastEventIds
                 ELSE Append(m.lastEventIds, id)
        m1 == [m EXCEPT !.lastEventIds = added,
                        !.h.insertClock = @ + 1,
                        !.h.insertedAt = Put(@, id, m.h.insertClock + 1)]
        firstId == Head(added)
    IN  IF Len(added) > DEDUP_WINDOW
        THEN [m1 EXCEPT !.lastEventIds = Tail(added),
                        !.h.evictCount = Bump(@, firstId),
                        !.h.evictedStamp = At(m1.h.insertedAt, firstId)]
        ELSE m1

\* clearTimeout(debounceTimer) when set; debounceTimer = setTimeout(...)
scheduleEventFlush(m) == [m EXCEPT !.debounceTimer = "armed"]

\* variant: no duplicate test
isDuplicate_Never(m, id) == FALSE

\* data.event_id && lastEventIds.has(data.event_id)
isDuplicate(m, id) == id # NoId /\ id \in Range(m.lastEventIds)

\* variant: a body that does not parse is buffered as an event without id
handleEvent_KeepBad(m, eventType, body) ==
    LET m0 == resetHeartbeatTimeout(m)
        id == IF body = BadBody THEN NoId ELSE body
        seen == body \in Range(m.lastEventIds)
        noted(x, outcome) ==
            [x EXCEPT !.h.last = outcome, !.h.lastId = id,
                      !.h.lastHit = seen, !.h.lastStale = FALSE]
    IN  IF isDuplicate(m0, id)
        THEN noted(m0, "duplicate")
        ELSE LET m1 == IF id # NoId THEN trackEventId(m0, id) ELSE m0
                 m2 == [m1 EXCEPT !.eventBuffer =
                            Append(@, [eventType |-> eventType, id |-> id])]
             IN  noted(scheduleEventFlush(m2),
                       IF body = BadBody THEN "parse_error" ELSE "passed")

handleEvent(m, eventType, body) ==
    LET m0 == resetHeartbeatTimeout(m)
        seen == body \in Range(m.lastEventIds)
        noted(x, outcome) ==
            [x EXCEPT !.h.last = outcome,
                      !.h.lastId = IF body = BadBody THEN NoId ELSE body,
                      !.h.lastHit = seen,
                      !.h.lastStale = FALSE]
    IN  IF body = BadBody
        THEN noted(m0, "parse_error")
        ELSE IF isDuplicate(m0, body)
        THEN noted(m0, "duplicate")
        ELSE LET m1 == IF body # NoId THEN trackEventId(m0, body) ELSE m0
                 m2 == [m1 EXCEPT !.eventBuffer =
                            Append(@, [eventType |-> eventType, id |-> body])]
             IN  noted(scheduleEventFlush(m2), "passed")

\* the keys of eventsByType in the order Object.entries gives them: the
\* order in which each type first occurs in the buffer
RECURSIVE TypesInOrder(_)
TypesInOrder(buf) ==
    IF buf = <<>> THEN <<>>
    ELSE LET rest == TypesInOrder(SubSeq(buf, 1, Len(buf) - 1))
             t == buf[Len(buf)].eventType
         IN  IF t \in Range(rest) THEN rest ELSE Append(rest, t)

OfType(buf, t) == SelectSeq(buf, LAMBDA e : e.eventType = t)

\* variant: each handler is called with the latest event of its type only
RECURSIVE Grouped_LatestOnly(_, _)
Grouped_LatestOnly(buf, types) ==
    IF types = <<>> THEN <<>>
    ELSE LET evs == SelectSeq(buf, LAMBDA e : e.eventType = Head(types))
         IN  <<evs[Len(evs)]>> \o Grouped_LatestOnly(buf, Tail(types))

\* the handler invocations of one flush, in order
RECURSIVE Grouped(_, _)
Grouped(buf, types) ==
    IF types = <<>> THEN <<>>
    ELSE OfType(buf, Head(types)) \o Grouped(buf, Tail(types))

Dispatched(m) ==
    IF m.eventHandlers = 0
    THEN <<>>
    ELSE Grouped(m.eventBuffer, TypesInOrder(m.eventBuffer))

Occurrences(seq, id) == Cardinality({i \in 1..Len(seq) : seq[i].id = id})
IdsOf(seq) == {seq[i].id : i \in 1..Len(seq)} \ {NoId}
\* the handlers initDashboard registers for these types call
\* mergeRealtimeUpdate, which stamps lastUpdated
MergeTypes == {"device_status", "alert_created", "latency_spike"}

\* variant: no try/catch around the handler call: the first exception ends
\* the flush before the buffer is cleared
flushEventBuffer_NoCatch(m, throwing) ==
    IF m.eventBuffer = <<>>
    THEN m
    ELSE LET all == Dispatched(m)
             thrown == {i \in 1..Len(all) : i \in throwing}
             last == IF thrown = {} THEN Len(all)
                     ELSE CHOOSE i \in thrown : \A j \in thrown : i <= j
             calls == SubSeq(all, 1, last)
         IN  [m EXCEPT
                !.eventBuffer = IF thrown = {} THEN <<>> ELSE @,
                !.viewState.stale =
                    IF \E i \in 1..Len(calls) :
                           calls[i].eventType \in MergeTypes /\ i \notin throwing
                    THEN FALSE ELSE @,
                !.h.dispatchCount =
                    [i \in DOMAIN @ \cup IdsOf(calls) |->
                        At(@, i) + Occurrences(calls, i)],
                !.h.flushedFrom = m.eventBuffer,
                !.h.calls = calls,
                !.h.threw = thrown \cap (1..last)]

\* flushEventBuffer() when the handler invocations whose numbers are in
\* throwing throw: the catch block logs the exception and the forEach loops
\* go on.  An invocation that throws has not stamped lastUpdated.
flushEventBufferThrowing(m, throwing) ==
    IF m.eventBuffer = <<>>
    THEN m
    ELSE LET calls == Dispatched(m)
         IN  [m EXCEPT
                !.eventBuffer = <<>>,
                !.viewState.stale =
                    IF \E i \in 1..Len(calls) :
                           calls[i].eventType \in MergeTypes /\ i \notin throwing
                    THEN FALSE ELSE @,
                !.h.dispatchCount =
                    [i \in DOMAIN @ \cup IdsOf(calls) |->
                        At(@, i) + Occurrences(calls, i)],
                !.h.flushedFrom = m.eventBuffer,
                !.h.calls = calls,
                !.h.threw = {i \in 1..Len(calls) : i \in throwing}]

\* flushEventBuffer() when no handler throws
flushEventBuffer(m) == flushEventBufferThrowing(m, {})

(***************************************************************************)
(* Network scan page (part_001, the DOMContentLoaded listener).            *)
(*   currentScanId     0: null; 1: the scan /api/active_scan reports;      *)
(*                     2: the scan /api/scan_network started               *)
(*   progressInterval  "null" | "armed": what the handle refers to         *)
(*   isScanning                                                            *)
(*   intervals         progress intervals the browser is running           *)
(*   activeScan        the /api/active_scan request of initializePage:     *)
(*                     "pending" or "done"                                 *)
(*   starting          /api/scan_network requests in flight                *)
(*   progress          /api/scan_progress requests in flight               *)
(* and, not read by the program:                                           *)
(*   clicks            clicks on Start Scan so far                         *)
(*   stopped           stopProgressPolling was called and                  *)
(*                     startProgressPolling has not been called since      *)
(*   last              the callback that made the last step                *)
(***************************************************************************)
\* the page after initializePage() has sent its requests
InitScanPage ==
    [currentScanId |-> 0, progressInterval |-> "null", isScanning |-> FALSE,
     intervals |-> 0, activeScan |-> "pending", starting |-> 0, progress |-> 0,
     clicks |-> 0, stopped |-> FALSE, last |-> "start"]

\* progressInterval = setInterval(...): a handle held before is overwritten
startProgressPolling(m) ==
    [m EXCEPT !.scanPage.progressInterval = "armed",
              !.scanPage.intervals = @ + 1,
              !.scanPage.stopped = FALSE]

stopProgressPolling(m) ==
    LET m1 == IF m.scanPage.progressInterval # "null"
              THEN [m EXCEPT !.scanPage.progressInterval = "null",
                             !.scanPage.intervals = @ - 1]
              ELSE m
    IN  [m1 EXCEPT !.scanPage.isScanning = FALSE, !.scanPage.stopped = TRUE]

resetScanButton(m) == [m EXCEPT !.scanPage.isScanning = FALSE]

\* startNetworkScan(ipRange) up to the POST of /api/scan_network
startNetworkScan(m) ==
    [m EXCEPT !.scanPage.isScanning = TRUE, !.scanPage.starting = @ + 1]

\* stopCurrentScan(): the POST of /api/stop_scan changes nothing on the page
stopCurrentScan(m) == resetScanButton(stopProgressPolling(m))

\* the click listener of the Start Scan button
startScanClick(m) ==
    IF m.scanPage.isScanning THEN stopCurrentScan(m) ELSE startNetworkScan(m)

\* the callbacks of the /api/scan_network request: ok, or data.error or a
\* failed request
scanNetworkResponse(m, ok) ==
    LET m1 == [m EXCEPT !.scanPage.starting = @ - 1]
    IN  IF ok
        THEN startProgressPolling([m1 EXCEPT !.scanPage.currentScanId = 2])
        ELSE resetScanButton(m1)

\* the callbacks of the /api/active_scan request of initializePage;
\* scan_id 0: no scan is active, or the request failed
activeScanResponse(m, scan_id) ==
    LET m1 == [m EXCEPT !.scanPage.activeScan = "done"]
    IN  IF scan_id # 0
        THEN startProgressPolling(
                 [m1 EXCEPT !.scanPage.currentScanId = scan_id,
                            !.scanPage.isScanning = TRUE])
        ELSE m1

\* checkScanProgress() up to the fetch of /api/scan_progress
checkScanProgress(m) ==
    IF m.scanPage.currentScanId = 0 THEN m
    ELSE [m EXCEPT !.scanPage.progress = @ + 1]

\* the then callback of checkScanProgress for a response with this status
scanProgressResponse(m, status) ==
    LET m1 == [m EXCEPT !.scanPage.progress = @ - 1]
    IN  IF status \in {"completed", "error", "stopped"}
        THEN resetScanButton(stopProgressPolling(m1))
        ELSE m1

(***************************************************************************)
(* Initial state: the module-level initialisers of sseClient.js, part_002  *)
(* and the state store, at the time the page loads.  In Init the browser   *)
(* holds no cache snapshot.                                                *)
(***************************************************************************)
\* Date.now() when the page loads: 2 January 1970 and some, so that a
\* snapshot can be 8 days old
PageLoadTime == 700000000

InitProgram ==
    /\ connectionStatus = DISCONNECTED
    /\ eventSource = "null"
    /\ retryDelay = INITIAL_RETRY_DELAY
    /\ retryTimeout = "null"
    /\ heartbeatTimeout = "null"
    /\ debounceTimer = "null"
    /\ lastEventIds = <<>>
    /\ eventBuffer = <<>>
    /\ eventHandlers = 0
    /\ onConnectionChange = 0
    /\ liveTransports = 0
    /\ leakedRetry = [stale |-> 0, fresh |-> 0]
    /\ pollingInterval = "null"
    /\ activeIntervals = 0
    /\ viewState =
           [connectionStatus |-> DISCONNECTED, stale |-> TRUE, isLoading |-> FALSE]
    /\ loadingResets = 0
    /\ renderScheduled = FALSE
    /\ latestState = 0
    /\ animationFrames = 0
    /\ rh = InitRenderHistory
    /\ dashboardState = InitialState
    /\ listeners = <<>>
    /\ now = PageLoadTime
    /\ fetches = <<>>
    /\ g = InitStoreHistory
    /\ scanPage = InitScanPage
    /\ h = InitHistory

Init ==
    /\ InitProgram
    /\ storage = NoItem

(***************************************************************************)
(* Actions: one per callback or API call.                                  *)
(***************************************************************************)
Step(tag, stale, m) ==
    Becomes([m EXCEPT !.h.last = tag, !.h.lastId = NoId, !.h.lastHit = FALSE,
                      !.h.lastStale = stale])

\* initSSE(options) called by an importer of the module, any number of times
InitSSE ==
    /\ h.initCount < MaxInits
    /\ Step("init", FALSE, initSSE(Cur, h.initCount + 1))

\* initSSE(options) called by the 3 s timer of initDashboard, which runs once
\* per page (dashboardBootKey)
BootInitSSE ==
    /\ h.initCount = 0
    /\ Step("init", FALSE, initSSE(Cur, 1))

\* the transport opens
TransportOpen ==
    /\ eventSource = "opening"
    /\ Step("open", FALSE, onopen(Cur))

\* eventSource.onerror
TransportError ==
    /\ eventSource # "null"
    /\ Step("error", FALSE, handleDisconnect(Cur))

\* the heartbeat timer fires
HeartbeatTimeout ==
    /\ heartbeatTimeout = "armed"
    /\ Step("heartbeat", h.hbStale,
            handleDisconnect([Cur EXCEPT !.heartbeatTimeout = "dead"]))

\* the retry timer that retryTimeout refers to fires
RetryTimerFires ==
    /\ retryTimeout = "armed"
    /\ Step("retry", h.retryStale, connect([Cur EXCEPT !.retryTimeout = "dead"]))

\* a retry timer whose handle was overwritten fires
LeakedRetryFires ==
    \/ /\ leakedRetry.stale > 0
       /\ Step("retry", TRUE, connect([Cur EXCEPT !.leakedRetry.stale = @ - 1]))
    \/ /\ leakedRetry.fresh > 0
       /\ Step("retry", FALSE, connect([Cur EXCEPT !.leakedRetry.fresh = @ - 1]))

\* the server's 'connected' event
ConnectedEvent ==
    /\ eventSource = "open"
    /\ Step("connected_event", FALSE, resetHeartbeatTimeout(Cur))

\* the listener of one of the five named events runs, with the given body
Arrives(eventType, body) ==
    /\ eventSource = "open"
    /\ Becomes(handleEvent(
           [Cur EXCEPT !.h.frameSinceArm = TRUE,
                       !.h.resent =
                           IF body \in DOMAIN h.insertedAt \ Range(lastEventIds)
                           THEN @ + 1 ELSE @],
           eventType, body))

\* a named event, at most MaxBuffer of them between two flushes
NamedEvent(eventType, body) ==
    /\ (body # BadBody /\ ~isDuplicate(Cur, body)) => Len(eventBuffer) < MaxBuffer
    /\ Arrives(eventType, body)

\* a named event of a burst, at most MaxBurst of them between two flushes
BurstEvent(eventType, body) ==
    /\ Len(eventBuffer) < MaxBurst
    /\ Arrives(eventType, body)

\* an unnamed keep-alive frame (a comment line or a 'message' event): connect()
\* registers no listener that it reaches
KeepAliveFrame ==
    /\ eventSource = "open"
    /\ Step("keepalive", FALSE, [Cur EXCEPT !.h.frameSinceArm = TRUE])

\* the debounce timer fires
DebounceFires ==
    /\ debounceTimer = "armed"
    /\ Step("flush", FALSE, flushEventBuffer([Cur EXCEPT !.debounceTimer = "dead"]))

\* the debounce timer fires and some of the handler invocations of the
\* flush throw
DebounceFiresThrowing(throwing) ==
    /\ debounceTimer = "armed"
    /\ throwing # {}
    /\ throwing \subseteq 1..Len(Dispatched(Cur))
    /\ Step("flush", FALSE,
           flushEventBufferThrowing([Cur EXCEPT !.debounceTimer = "dead"], throwing))

Disconnect == Step("disconnect", FALSE, disconnect(Cur))

Reconnect == Step("reconnect", FALSE, reconnect(Cur))

\* visibilitychange with visibilityState = 'visible'
VisibilityVisible ==
    /\ viewState.stale => loadingResets < MaxRefresh
    /\ Step("visible", FALSE, onVisible(Cur))

\* the polling interval fires
PollingTick ==
    /\ activeIntervals > 0
    /\ loadingResets < MaxRefresh
    /\ Step("poll", FALSE, refreshView(Cur))

\* the 2 s timer of refreshAll fires
LoadingResetFires ==
    /\ loadingResets > 0
    /\ Step("loading_reset", FALSE,
            updateView([Cur EXCEPT !.loadingResets = @ - 1], "isLoading", FALSE))

\* more than 30 s pass without an update of the store
TimePasses ==
    /\ ~viewState.stale
    /\ Step("time", FALSE, [Cur EXCEPT !.viewState.stale = TRUE])

(***************************************************************************)
(* Actions of the store: one per call of an exported function.             *)
(***************************************************************************)
\* the payload of an event, with the fields mergeRealtimeUpdate reads
Payload(new_state, severity, latency_ms) ==
    [new_state |-> new_state, severity |-> severity, latency_ms |-> latency_ms,
     message |-> NoString, metric_name |-> "cpu", device_ip |-> "10.0.0.1"]

\* the program state at the beginning of a call of a store function;
\* full: setItem throws during the call (the quota is exceeded)
StoreCur(full) ==
    [Cur EXCEPT !.g = [@ EXCEPT !.notified = <<>>, !.seen = Null, !.saved = FALSE,
                                !.data = NoString, !.ret = FALSE,
                                !.quotaExceeded = full, !.leaving = {}]]

StoreStep(tag, key, m) == Becomes([m EXCEPT !.g.last = tag, !.g.key = key])

\* initDashboard calls loadFromCache() before any other store function
LoadFromCache ==
    /\ g.last = "start"
    /\ StoreStep("load", NoString, loadFromCache(StoreCur(FALSE)))

Subscribe(listener) ==
    /\ g.last # "start"
    /\ Len(listeners) < MaxListeners
    /\ StoreStep("subscribe", NoString, subscribe(StoreCur(FALSE), listener))

Unsubscribe(listener) ==
    /\ listener \in Range(listeners)
    /\ StoreStep("unsubscribe", NoString, unsubscribe(StoreCur(FALSE), listener))

UpdateState(key, data, full) ==
    /\ g.last # "start"
    /\ StoreStep("update", key,
           updateState([StoreCur(full) EXCEPT !.g.data = data], key, data))

\* updateState(key, data) while the listeners in leaving unsubscribe
\* themselves when they are notified
UpdateStateLeaving(key, data, leaving) ==
    /\ g.last # "start"
    /\ StoreStep("update", key,
           updateState([StoreCur(FALSE) EXCEPT !.g.data = data,
                                               !.g.leaving = leaving],
                       key, data))

MergeRealtimeUpdate(eventType, payload) ==
    /\ g.last # "start"
    /\ StoreStep("merge", eventType,
           mergeRealtimeUpdate([StoreCur(FALSE) EXCEPT !.g.data = payload],
                               eventType, payload))

\* subscribe(listener) is called and the function it returns is kept as
\* the one of the call of that number
SubscribeCall(listener) ==
    /\ g.last # "start"
    /\ Len(g.fns) < MaxSubscribes
    /\ StoreStep("subscribe", NoString,
           [subscribe(StoreCur(FALSE), listener) EXCEPT
               !.g.fns = Append(@, listener),
               !.g.regs = Append(@, Len(g.fns) + 1),
               !.g.data = Len(g.fns) + 1])

\* the function the r-th subscribe call returned is called, for the first
\* time or again
UnsubscribeCall(r) ==
    /\ r \in 1..Len(g.fns)
    /\ StoreStep("unsubscribe", NoString,
           [unsubscribe(StoreCur(FALSE), g.fns[r]) EXCEPT
               !.g.regs = IF indexOf(@, r) > 0 THEN splice(@, indexOf(@, r)) ELSE @,
               !.g.data = r])

\* initDashboard calls refreshAll() after loadFromCache()
BootRefreshAll ==
    /\ g.last = "load"
    /\ StoreStep("refresh", NoString, refreshAll(StoreCur(FALSE)))

FetchResolves(i, key) ==
    /\ i \in 1..Len(fetches)
    /\ fetches[i][key] # "done"
    /\ StoreStep(IF fetches[i][key] = "racing" THEN "fetch_ok" ELSE "fetch_late", key,
           fetchResolved(StoreCur(FALSE), i, key, Response(key)))

FetchRejects(i, key) ==
    /\ i \in 1..Len(fetches)
    /\ fetches[i][key] # "done"
    /\ StoreStep(IF fetches[i][key] = "racing" THEN "fetch_failed" ELSE "fetch_late",
           key, fetchRejected(StoreCur(FALSE), i, key))

FetchTimeout(i, key) ==
    /\ i \in 1..Len(fetches)
    /\ fetches[i][key] = "racing"
    /\ StoreStep("fetch_timeout", key, fetchTimedOut(StoreCur(FALSE), i, key))

\* the summary fetch of the i-th refresh answers with a summary
SummaryResponse(i, summary) ==
    /\ i \in 1..Len(fetches)
    /\ fetches[i]["summary"] # "done"
    /\ StoreStep(IF fetches[i]["summary"] = "racing" THEN "fetch_ok" ELSE "fetch_late",
           "summary",
           fetchResolved(
               [StoreCur(FALSE) EXCEPT
                   !.g.data = summary,
                   !.g.writes = IF fetches[i]["summary"] = "racing"
                                THEN Append(@, [by |-> "poll", summary |-> summary])
                                ELSE @],
               i, "summary", summary))

\* the flush of the connection manager hands a device_status event to
\* mergeRealtimeUpdate
DeviceStatusEvent(new_state) ==
    /\ g.last # "start"
    /\ g.merges < MaxMerges
    /\ StoreStep("merge", "device_status",
           mergeRealtimeUpdate(
               [StoreCur(FALSE) EXCEPT
                   !.g.data = Payload(new_state, NoString, 0),
                   !.g.writes = Append(@, [by |-> "push", state |-> new_state])],
               "device_status", Payload(new_state, NoString, 0)))

\* the polling interval fires while fewer than MaxPolls refreshes are
\* under way
PollAgain ==
    /\ activeIntervals > 0
    /\ Len(fetches) < MaxPolls
    /\ StoreStep("poll", NoString, refreshAll(StoreCur(FALSE)))

\* the server is unreachable: the fetches of the oldest refresh fail in the
\* order they were started
FetchFailsInOrder ==
    /\ fetches # <<>>
    /\ \E i \in 1..Len(FetchOrder) :
           /\ \A j \in 1..(i - 1) : fetches[1][FetchOrder[j]] = "done"
           /\ FetchRejects(1, FetchOrder[i])

\* the tab becomes visible
Visible ==
    /\ g.last # "start"
    /\ isStale(Cur) => Len(fetches) < MaxRefresh /\ loadingResets < MaxRefresh
    /\ StoreStep("visible", NoString, onVisibilityChange(StoreCur(FALSE)))

\* the connection manager reports a new status
ConnectionChange(status) ==
    /\ g.last # "start"
    /\ status # dashboardState.connectionStatus
    /\ StoreStep("status", status, handleConnectionChange(StoreCur(FALSE), status))

\* the polling interval fires
PollingFires ==
    /\ activeIntervals > 0
    /\ Len(fetches) < MaxRefresh
    /\ loadingResets < MaxRefresh
    /\ StoreStep("poll", NoString, refreshAll(StoreCur(FALSE)))

\* the 2 s timer of refreshAll fires
LoadingReset ==
    /\ loadingResets > 0
    /\ StoreStep("loading_reset", NoString, loadingReset(StoreCur(FALSE)))

\* time passes
Elapse(ms) ==
    /\ g.last # "start"
    /\ g.ticks < MaxElapses
    /\ StoreStep("tick", NoString,
           [StoreCur(FALSE) EXCEPT !.now = @ + ms, !.g.ticks = @ + 1])

\* the listener of the orchestrator is invoked with a state
ScheduleRender(state) ==
    /\ rh.calls < MaxRenderCalls
    /\ Becomes([scheduleRender(Cur, state) EXCEPT
                   !.rh.last = "schedule", !.rh.calls = @ + 1, !.rh.passed = state])

\* the browser runs a frame callback it holds
AnimationFrame ==
    /\ animationFrames > 0
    /\ Becomes(onAnimationFrame(
           [Cur EXCEPT !.animationFrames = @ - 1,
                       !.rh = [@ EXCEPT !.last = "frame", !.batched = rh.calls,
                                       !.calls = 0, !.renders = 0]]))

\* the three event types whose handlers call mergeRealtimeUpdate, in turn
RingType(k) ==
    CASE k % 3 = 1 -> "device_status"
      [] k % 3 = 2 -> "alert_created"
      [] OTHER -> "latency_spike"

\* a second passes and the handler of the next event calls
\* mergeRealtimeUpdate with a payload that carries the number of the call
RingEvent ==
    /\ g.last # "start"
    /\ g.merges < RingMax
    /\ StoreStep("merge", RingType(g.merges + 1),
           mergeRealtimeUpdate(
               [StoreCur(FALSE) EXCEPT !.now = @ + 1000],
               RingType(g.merges + 1), Payload("down", "CRITICAL", g.merges + 1)))

\* a second passes
Tick ==
    /\ g.last # "start"
    /\ g.ticks < MaxTicks
    /\ StoreStep("tick", NoString,
           [StoreCur(FALSE) EXCEPT !.now = @ + 1000, !.g.ticks = @ + 1])

(***************************************************************************)
(* Actions of the network scan page.                                       *)
(***************************************************************************)
ScanStep(tag, m) == Becomes([m EXCEPT !.scanPage.last = tag])

\* /api/active_scan answers, with the id of an active scan or without
ActiveScanResponse(scan_id) ==
    /\ scanPage.activeScan = "pending"
    /\ ScanStep("active_scan", activeScanResponse(Cur, scan_id))

\* the user clicks the Start Scan button
StartScanClick ==
    /\ scanPage.clicks < MaxScanClicks
    /\ ScanStep("click", startScanClick([Cur EXCEPT !.scanPage.clicks = @ + 1]))

\* /api/scan_network answers
ScanNetworkResponse(ok) ==
    /\ scanPage.starting > 0
    /\ ScanStep("scan_started", scanNetworkResponse(Cur, ok))

\* a progress interval the browser runs fires
ProgressPollFires ==
    /\ scanPage.intervals > 0
    /\ scanPage.currentScanId # 0 => scanPage.progress < MaxProgress
    /\ ScanStep("poll", checkScanProgress(Cur))

\* /api/scan_progress answers
ScanProgressResponse(status) ==
    /\ scanPage.progress > 0
    /\ ScanStep("progress", scanProgressResponse(Cur, status))

(***************************************************************************)
(* Specifications.                                                         *)
(***************************************************************************)
\* the transport's life cycle and the module's timers
Lifecycle ==
    \/ TransportOpen
    \/ TransportError
    \/ HeartbeatTimeout
    \/ RetryTimerFires

\* Spec: the sseClient module, wired to the dashboard's callbacks, under any
\* use of its exported functions.  The server sends 'connected' events,
\* keep-alive frames and device_status events whose body does not parse or
\* carries no event_id.
Next ==
    \/ InitSSE
    \/ Disconnect
    \/ Reconnect
    \/ Lifecycle
    \/ LeakedRetryFires
    \/ ConnectedEvent
    \/ KeepAliveFrame
    \/ DebounceFires
    \/ \E b \in {BadBody, NoId} : NamedEvent("device_status", b)

Spec == Init /\ [][Next]_vars

\* FairSpec: the connection manager alone (the server sends no named events)
\* where a pending retry timer eventually fires: the browser runs every timer
\* that is not cleared
NextManager ==
    \/ InitSSE
    \/ Disconnect
    \/ Reconnect
    \/ Lifecycle
    \/ LeakedRetryFires
    \/ ConnectedEvent
    \/ KeepAliveFrame

FairSpec ==
    /\ Init
    /\ [][NextManager]_vars
    /\ WF_vars(RetryTimerFires)
    /\ WF_vars(LeakedRetryFires)

\* DashboardSpec: the page as part_002 wires it: initSSE once, disconnect()
\* and reconnect() never called, the tab hidden and shown, time passing; the
\* server sends events of two types with up to MaxId distinct ids.
SentTypes == {"device_status", "interface_threshold"}
Bodies == {BadBody, NoId} \cup (1..MaxId)

NextDashboard ==
    \/ BootInitSSE
    \/ Lifecycle
    \/ ConnectedEvent
    \/ KeepAliveFrame
    \/ DebounceFires
    \/ \E t \in SentTypes, b \in Bodies : NamedEvent(t, b)
    \/ VisibilityVisible
    \/ PollingTick
    \/ LoadingResetFires
    \/ TimePasses

DashboardSpec == Init /\ [][NextDashboard]_vars

\* PollingSpec: the page as part_002 wires it, where the server sends no
\* named events and the browser's timers run: a retry timer and a timer of
\* refreshAll that are pending fire, and an active polling interval fires
\* again and again.  Nothing is assumed of the transport: it may open, fail
\* or stay silent.
NextPolling ==
    \/ BootInitSSE
    \/ Lifecycle
    \/ ConnectedEvent
    \/ KeepAliveFrame
    \/ VisibilityVisible
    \/ PollingTick
    \/ LoadingResetFires
    \/ TimePasses

PollingSpec ==
    /\ Init
    /\ [][NextPolling]_vars
    /\ WF_vars(RetryTimerFires)
    /\ WF_vars(LoadingResetFires)
    /\ SF_vars(PollingTick)

\* DedupSpec: the event processor on a connection that stays up, fed with up
\* to DedupMaxId distinct ids.  Ids are opaque to the code, so the k-th new id
\* is named k; the server sends a new id, resends the oldest or the newest id
\* of the window, or resends an id that has left the window.
NewIds ==
    LET k == Cardinality(DOMAIN h.insertedAt) + 1
    IN  IF k <= DedupMaxId THEN {k} ELSE {}

WindowEnds ==
    IF lastEventIds = <<>> THEN {}
    ELSE {Head(lastEventIds), lastEventIds[Len(lastEventIds)]}

LeftWindow ==
    IF h.resent < MaxResend
    THEN DOMAIN h.insertedAt \ Range(lastEventIds)
    ELSE {}

NextDedup ==
    \/ BootInitSSE
    \/ TransportOpen
    \/ DebounceFires
    \/ \E b \in NewIds \cup WindowEnds \cup LeftWindow :
           NamedEvent("device_status", b)

DedupSpec == Init /\ [][NextDedup]_vars

\* StoreSpec: the state store of a page that found no snapshot.  The page
\* calls loadFromCache once, then updateState with keys the orchestrator
\* uses, an unknown key and an inherited property name, subscribe and
\* unsubscribe, while time passes and setItem may throw.
FetchedSummary ==
    [devices |-> [total |-> 3, online |-> 2, offline |-> 1, up |-> NoField,
                  down |-> NoField, online_percent |-> 667, up_percent |-> NoField],
     active_alerts |-> [critical |-> 0, warning |-> NoField, info |-> 0],
     network_health |-> [avg_latency_ms |-> 1000]]

FetchedTrends == [range |-> "24h"]

SnapshotAges == {7200000, SEVEN_DAYS - 1, SEVEN_DAYS, SEVEN_DAYS + 1, 691200000}

\* the slices of a snapshot: written before any fetch completed (all null),
\* or after the summary and the trends were fetched
StoredData(fetched) ==
    [k \in CacheKeys |->
        IF fetched /\ k = "summary" THEN FetchedSummary
        ELSE IF fetched /\ k = "trends" THEN FetchedTrends ELSE Null]

MergeInputs ==
    {<<"device_status", Payload("down", NoString, 0)>>,
     <<"alert_created", Payload(NoString, "CRITICAL", 0)>>,
     <<"latency_spike", Payload(NoString, NoString, 50)>>,
     <<"interface_threshold", Payload(NoString, NoString, 0)>>}

\* the functions that are subscribed
ListenerFns == {"render", "other"}

\* BootSpec: the state store at page load.  The browser holds no snapshot,
\* an unreadable one, or one a previous page load wrote 2 hours, 7 days less
\* or more a millisecond, exactly 7 days or 8 days ago; the page calls
\* loadFromCache once, then refreshAll sets and resets isLoading and the
\* orchestrator subscribes.
BootInit ==
    /\ InitProgram
    /\ \/ storage \in {NoItem, Corrupt}
       \/ \E age \in SnapshotAges, fetched \in BOOLEAN :
              storage = [timestamp |-> PageLoadTime - age,
                         data |-> StoredData(fetched)]

NextBoot ==
    \/ LoadFromCache
    \/ \E l \in ListenerFns : Subscribe(l)
    \/ \E full \in BOOLEAN, b \in BOOLEAN : UpdateState("isLoading", b, full)
    \/ Tick

BootSpec == BootInit /\ [][NextBoot]_vars

NextStore ==
    \/ LoadFromCache
    \/ \E l \in ListenerFns : Subscribe(l)
    \/ \E l \in ListenerFns : Unsubscribe(l)
    \/ \E full \in BOOLEAN : UpdateState("summary", FetchedSummary, full)
    \/ \E full \in BOOLEAN, b \in BOOLEAN : UpdateState("isLoading", b, full)
    \/ \E k \in {"devices", "toString"} : UpdateState(k, TRUE, FALSE)
    \/ Tick

StoreSpec == Init /\ [][NextStore]_vars

\* CacheSpec: the cache of a page that found no snapshot, while fetched
\* summaries are stored, events are merged, time passes and setItem may
\* throw.
NextCache ==
    \/ LoadFromCache
    \/ \E full \in BOOLEAN : UpdateState("summary", FetchedSummary, full)
    \/ \E full \in BOOLEAN : UpdateState("isLoading", TRUE, full)
    \/ \E in \in MergeInputs :
           g.merges < MaxMerges /\ MergeRealtimeUpdate(in[1], in[2])
    \/ Tick

CacheSpec == Init /\ [][NextCache]_vars

\* RingSpec: a page without snapshot that receives up to RingMax events of
\* the three merged types in turn; the k-th event carries k and arrives at
\* the k-th second.
NextRing ==
    \/ LoadFromCache
    \/ \E l \in ListenerFns : Subscribe(l)
    \/ RingEvent

RingSpec == Init /\ [][NextRing]_vars

\* DevicesSpec: a page without snapshot whose summary fetch returns one of
\* several device records (counters at 0, at the total, with the legacy
\* up/down names, without a total), and that then merges device_status
\* events with the states the server sends.
Devices(total, online, offline) ==
    [total |-> total, online |-> online, offline |-> offline, up |-> NoField,
     down |-> NoField, online_percent |-> NoField, up_percent |-> NoField]

LegacyDevices ==
    [total |-> 3, online |-> NoField, offline |-> NoField, up |-> 2,
     down |-> 1, online_percent |-> NoField, up_percent |-> 667]

DeviceRecords ==
    {Devices(t, on, off) : t \in {NoField, 0, 3, 10}, on \in {0, 1, 10},
                           off \in {0, 1}}
        \cup {LegacyDevices}

DeviceSummary(devices) ==
    [devices |-> devices, active_alerts |-> Null, network_health |-> Null]

DeviceStates == {"CRITICAL", "down", "OK", "up", "WARNING"}

NextDevices ==
    \/ LoadFromCache
    \/ \E d \in DeviceRecords :
           /\ dashboardState.summary = Null
           /\ UpdateState("summary", DeviceSummary(d), FALSE)
    \/ \E st \in DeviceStates :
           /\ g.merges < MaxDeviceEvents
           /\ MergeRealtimeUpdate("device_status", Payload(st, NoString, 0))

DevicesSpec == Init /\ [][NextDevices]_vars

\* AlertsSpec: a page without snapshot whose summary and topProblems
\* fetches complete at any moment while up to MaxAlerts alert_created events
\* are merged; the k-th event comes from device k with the k-th of the
\* severities below, in turn.
AlertCounts ==
    {[critical |-> 0, warning |-> 1, info |-> 2],
     [critical |-> NoField, warning |-> NoField, info |-> NoField]}

AlertSummary(alerts) ==
    [devices |-> Null, active_alerts |-> alerts, network_health |-> Null]

FetchedAlert(k) ==
    [device_ip |-> k, message |-> "fetched", severity |-> "WARNING", time |-> 0]

\* topProblems as fetched: without recent_alerts, with none, and with more
\* than recent_alerts keeps after a merge
FetchedTopProblems ==
    {[recent_alerts |-> Null], [recent_alerts |-> <<>>],
     [recent_alerts |-> [i \in 1..(RECENT_ALERTS_MAX + 1) |-> FetchedAlert(100 + i)]]}

Severities ==
    <<"CRITICAL", "warning", NoString, "Critical", "MAJOR", "WARNING", "info">>

AlertPayload(k) ==
    [Payload(NoString, Severities[((k - 1) % Len(Severities)) + 1], 0)
        EXCEPT !.device_ip = k]

NextAlerts ==
    \/ LoadFromCache
    \/ \E a \in AlertCounts :
           /\ dashboardState.summary = Null
           /\ UpdateState("summary", AlertSummary(a), FALSE)
    \/ \E tp \in FetchedTopProblems :
           /\ dashboardState.topProblems = Null
           /\ UpdateState("topProblems", tp, FALSE)
    \/ /\ g.merges < MaxAlerts
       /\ MergeRealtimeUpdate("alert_created", AlertPayload(g.merges + 1))

AlertsSpec == Init /\ [][NextAlerts]_vars

\* NotifySpec: a page without snapshot on which up to MaxSubscribes
\* subscribe calls register two functions, the functions these calls
\* returned are called any number of times, isLoading is set and reset and
\* latency_spike events are merged.
NextNotify ==
    \/ LoadFromCache
    \/ \E l \in ListenerFns : SubscribeCall(l)
    \/ \E r \in 1..MaxSubscribes : UnsubscribeCall(r)
    \/ \E b \in BOOLEAN : UpdateState("isLoading", b, FALSE)
    \/ /\ g.merges < MaxMerges
       /\ MergeRealtimeUpdate("latency_spike", Payload(NoString, NoString, 50))

NotifySpec == Init /\ [][NextNotify]_vars

\* LeavingSpec: up to MaxListeners functions are subscribed and
\* unsubscribed while isLoading and error are set and reset; any of the
\* functions unsubscribes itself when it is notified.
NextLeaving ==
    \/ LoadFromCache
    \/ \E l \in ListenerFns : Subscribe(l)
    \/ \E l \in ListenerFns : Unsubscribe(l)
    \/ \E key \in {"isLoading", "error"}, b \in BOOLEAN, leaving \in SUBSET ListenerFns :
           UpdateStateLeaving(key, b, leaving)

LeavingSpec == Init /\ [][NextLeaving]_vars

\* ScanSpec: the network scan page after it has loaded.  The server answers
\* the active-scan check with or without a scan, the user clicks Start Scan
\* up to MaxScanClicks times, scan starts succeed or fail, the progress
\* intervals fire and their requests report a running or a finished scan.
NextScan ==
    \/ \E scan_id \in {0, 1} : ActiveScanResponse(scan_id)
    \/ StartScanClick
    \/ \E ok \in BOOLEAN : ScanNetworkResponse(ok)
    \/ ProgressPollFires
    \/ \E status \in {"running", "completed"} : ScanProgressResponse(status)

ScanSpec == Init /\ [][NextScan]_vars

\* FetchSpec: the first full refresh of a page.  The browser holds no
\* snapshot or one written 2 hours ago with summary and trends; the page
\* calls loadFromCache and refreshAll, and each of the six fetches answers,
\* fails or runs into its timer, in any order, a response that lost the race
\* arriving later.
FetchInit ==
    /\ InitProgram
    /\ \/ storage = NoItem
       \/ storage = [timestamp |-> PageLoadTime - 7200000, data |-> StoredData(TRUE)]

NextFetch ==
    \/ LoadFromCache
    \/ BootRefreshAll
    \/ \E k \in CacheKeys : FetchResolves(1, k)
    \/ \E k \in CacheKeys : FetchRejects(1, k)
    \/ \E k \in CacheKeys : FetchTimeout(1, k)

FetchSpec == FetchInit /\ [][NextFetch]_vars

\* RaceSpec: a page without snapshot that refreshes at start and, the
\* push channel being reported down, by polling, while device_status events
\* are merged.  The summary fetches answer with one of two summaries, in
\* time or after their timer, in any order.  The other five fetches and the
\* timers that reset isLoading stay pending: they write other slices.
FetchedSummaries ==
    {DeviceSummary(Devices(10, 10, 0)), DeviceSummary(Devices(3, 0, 3))}

NextRace ==
    \/ LoadFromCache
    \/ BootRefreshAll
    \/ \E status \in {CONNECTING, DISCONNECTED} : ConnectionChange(status)
    \/ PollAgain
    \/ \E i \in 1..MaxPolls : \E s \in FetchedSummaries : SummaryResponse(i, s)
    \/ \E i \in 1..MaxPolls : FetchTimeout(i, "summary")
    \/ \E st \in {"CRITICAL", "OK"} : DeviceStatusEvent(st)

RaceSpec == Init /\ [][NextRace]_vars

\* VisibleSpec: a page without snapshot whose tab becomes visible at any
\* moment, while the connection manager reports status changes, the polling
\* interval and the timers of refreshAll fire, the server is unreachable,
\* and time passes in steps of 1 ms and 29,999 ms.
NextVisible ==
    \/ LoadFromCache
    \/ Visible
    \/ \E status \in ConnectionStatus : ConnectionChange(status)
    \/ PollingFires
    \/ LoadingReset
    \/ FetchFailsInOrder
    \/ \E ms \in {1, STALE_AFTER - 1} : Elapse(ms)

VisibleSpec == Init /\ [][NextVisible]_vars

\* RenderSpec: the listener of the orchestrator is invoked with states
\* 1..MaxRenderState, up to MaxRenderCalls times between two frame callbacks.
NextRender ==
    \/ \E state \in 1..MaxRenderState : ScheduleRender(state)
    \/ AnimationFrame

RenderSpec == Init /\ [][NextRender]_vars

\* SessionSpec: one initSSE, then any use of disconnect() and reconnect()
\* while the transport opens, fails and times out and the server sends
\* device_status events with up to MaxId distinct ids; a debounce timer that
\* is not cleared eventually fires.
NextSession ==
    \/ BootInitSSE
    \/ Disconnect
    \/ Reconnect
    \/ Lifecycle
    \/ DebounceFires
    \/ \E b \in Bodies : NamedEvent("device_status", b)

SessionSpec ==
    /\ Init
    /\ [][NextSession]_vars
    /\ WF_vars(DebounceFires)

\* BurstSpec: the event processor on a connection that stays up, fed with
\* bursts of up to MaxBurst events of two types between two flushes; an
\* event carries a new id (the k-th new id is named k) or none.  Any of the
\* handler invocations of a flush may throw.
BurstIds ==
    LET k == Cardinality(DOMAIN h.insertedAt) + 1
    IN  IF k <= MaxBurstId THEN {k, NoId} ELSE {NoId}

NextBurst ==
    \/ BootInitSSE
    \/ TransportOpen
    \/ DebounceFires
    \/ \E throwing \in SUBSET (1..MaxBurst) : DebounceFiresThrowing(throwing)
    \/ \E t \in SentTypes, b \in BurstIds : BurstEvent(t, b)

BurstSpec == Init /\ [][NextBurst]_vars

(***************************************************************************)
(* Properties.                                                             *)
(***************************************************************************)
EventTags == {"passed", "duplicate", "parse_error"}
SeenIds == DOMAIN h.insertedAt
InWindow(i) == IF i \in Range(lastEventIds) THEN 1 ELSE 0

\* C1 (as stated): for every sequence of inbound events the handler is
\* invoked at most once per event_id.
C1_AtMostOncePerId ==
    \A i \in DOMAIN h.dispatchCount : h.dispatchCount[i] <= 1

\* C1 (amended): an event whose event_id is in the dedup window is dropped
\* and reaches neither the buffer nor a handler, so an id is buffered or
\* dispatched at most once per stay in the window: the number of times it was
\* dispatched or is buffered never exceeds the number of times it has left
\* the window, plus one while it is in the window.
C1_OncePerStayInWindow ==
    /\ \A i \in SeenIds :
           At(h.dispatchCount, i) + Occurrences(eventBuffer, i)
               <= At(h.evictCount, i) + InWindow(i)
    /\ (h.last \in EventTags /\ h.lastId # NoId /\ h.lastHit) => h.last = "duplicate"

\* an event whose id was dispatched once already arrived again and was dropped
C1_Witness ==
    /\ h.last = "duplicate"
    /\ h.lastId # NoId
    /\ At(h.dispatchCount, h.lastId) = 1
    /\ Occurrences(eventBuffer, h.lastId) = 0

\* C2: the dedup window never holds more than 100 ids; the id evicted on an
\* insertion at capacity is the one inserted earliest (every id still in the
\* window was inserted after the id evicted last, and the window is in
\* insertion order: a duplicate hit moves nothing); an id that is not in the
\* window when it arrives, an evicted one included, is passed through.
C2_WindowFifo ==
    /\ Len(lastEventIds) <= DEDUP_WINDOW
    /\ \A j, k \in 1..Len(lastEventIds) :
           j < k => At(h.insertedAt, lastEventIds[j]) < At(h.insertedAt, lastEventIds[k])
    /\ \A j \in 1..Len(lastEventIds) :
           h.evictedStamp < At(h.insertedAt, lastEventIds[j])
    /\ (h.last \in {"passed", "duplicate"} /\ h.lastId # NoId)
           => (h.last = "passed" <=> ~h.lastHit)
    /\ (h.last = "passed" /\ h.lastId # NoId)
           => lastEventIds[Len(lastEventIds)] = h.lastId

\* an id that was evicted from a full window was resent and passed through,
\* evicting the next oldest id
C2_Witness ==
    /\ h.last = "passed"
    /\ h.lastId # NoId
    /\ At(h.evictCount, h.lastId) >= 1
    /\ Len(lastEventIds) = DEDUP_WINDOW
    /\ h.resent >= 1

BackoffSeq == <<1000, 2000, 4000, 8000, 16000, 30000>>
\* the delay of the n-th consecutive failure
Delay(n) == BackoffSeq[Min(n, Len(BackoffSeq))]

\* C3: the delay used for the n-th consecutive failure since the start, the
\* last successful open or reconnect() is the n-th of 1,2,4,8,16,30,30,...
\* seconds, and the next delay is the one after it; after a successful open
\* (no failure since) the next delay is 1 second.
C3_BackoffSequence ==
    /\ h.failures >= 1 => h.lastDelay = Delay(h.failures)
    /\ retryDelay = Delay(h.failures + 1)
    /\ h.last = "open" => retryDelay = 1000

\* the capped delay was used twice in a row at least
C3_Witness ==
    /\ h.failures >= 7
    /\ h.lastDelay = 30000
    /\ h.last \in {"error", "heartbeat"}

\* C4: while the status is CONNECTED no polling loop is active, and from a
\* status change to DISCONNECTED until the next change to CONNECTED a polling
\* loop is active.
C4_PollingFollowsStatus ==
    /\ connectionStatus = CONNECTED => (pollingInterval = "null" /\ activeIntervals = 0)
    /\ h.downSince => (pollingInterval = "armed" /\ activeIntervals >= 1)

\* the connection came back after a retry, which stopped the loop the
\* disconnection had started
C4_Witness ==
    /\ h.last = "open"
    /\ connectionStatus = CONNECTED
    /\ retryTimeout = "dead"
    /\ pollingInterval = "null"

\* C5: the browser never runs more than one polling interval, and
\* pollingInterval refers to it.
C5_OnePollingLoop ==
    /\ activeIntervals <= 1
    /\ pollingInterval = "armed" <=> activeIntervals = 1

\* the tab became visible while disconnected with the loop already running:
\* startPollingFallback was called with a loop active
C5_Witness ==
    /\ h.last = "visible"
    /\ h.downSince
    /\ viewState.connectionStatus = DISCONNECTED
    /\ activeIntervals = 1

\* C6 (as stated): every inbound frame rearms the heartbeat watchdog, so the
\* watchdog fires only when no frame has arrived since it was armed.
C6_EveryFrameRearms ==
    h.last = "heartbeat" => ~h.frameSinceArm

\* what every handleDisconnect leaves behind
AfterFailure ==
    /\ connectionStatus = DISCONNECTED
    /\ eventSource = "null"
    /\ liveTransports = 0
    /\ heartbeatTimeout # "armed"
    /\ retryTimeout = "armed"

\* C7: after a transport error and after a heartbeat timeout alike the
\* manager is DISCONNECTED with a retry timer armed, and unless disconnect()
\* is called a connection attempt follows.
C7_AlwaysRetries ==
    /\ [](h.last \in {"error", "heartbeat"} => AfterFailure)
    /\ (h.last \in {"error", "heartbeat"}) ~> (connectionStatus = CONNECTING \/ h.tornDown)

\* a heartbeat timeout on an open connection left the manager as a transport
\* error does
C7_Witness ==
    /\ h.last = "heartbeat"
    /\ ~h.lastStale
    /\ AfterFailure

\* C8 (as stated): from disconnect() until reconnect() or initSSE no retry
\* or heartbeat timer is pending, no transport is live and the status is
\* DISCONNECTED.
C8_QuietAfterDisconnect ==
    h.tornDown =>
        /\ retryTimeout # "armed"
        /\ leakedRetry.stale + leakedRetry.fresh = 0
        /\ heartbeatTimeout # "armed"
        /\ eventSource = "null"
        /\ liveTransports = 0
        /\ connectionStatus = DISCONNECTED

\* C9: at most one EventSource is live, and it is the one eventSource
\* refers to.
C9_OneTransport ==
    /\ liveTransports <= 1
    /\ liveTransports = 1 <=> eventSource # "null"

\* a second initSSE called connect() while the first call's transport was
\* open (its heartbeat timer is still armed)
C9_Witness ==
    /\ h.last = "init"
    /\ h.initCount = 2
    /\ h.hbStale
    /\ heartbeatTimeout = "armed"
    /\ liveTransports = 1

\* C10 (as stated): after a second initSSE the handlers and the callback in
\* use are those of the latest call, one transport is live at most, and no
\* timer armed before the latest call fires.
C10_SecondInitSupersedes ==
    h.initCount >= 2 =>
        /\ eventHandlers = h.initCount
        /\ onConnectionChange = h.initCount
        /\ liveTransports <= 1
        /\ ~h.lastStale

\* C11 (as stated): every event that passed deduplication and waits in the
\* buffer is eventually dispatched, whatever happens in between.
C11_EventuallyDelivered ==
    (eventBuffer # <<>>) ~> (eventBuffer = <<>>)

FirstOfType(seq, t) ==
    CHOOSE i \in 1..Len(seq) :
        /\ seq[i].eventType = t
        /\ \A j \in 1..(i - 1) : seq[j].eventType # t

C13_ClearedOnDisconnect ==
    h.tornDown => (lastEventIds = <<>> /\ eventBuffer = <<>>)

\* C14 (as stated): reconnect() leaves the status CONNECTING, the retry
\* delay at its initial value, exactly one live transport and no pending
\* retry or heartbeat timer.
C14_ReconnectClean ==
    h.last = "reconnect" =>
        /\ connectionStatus = CONNECTING
        /\ retryDelay = INITIAL_RETRY_DELAY
        /\ liveTransports = 1
        /\ eventSource = "opening"
        /\ retryTimeout # "armed"
        /\ heartbeatTimeout # "armed"
        /\ leakedRetry.stale + leakedRetry.fresh = 0

\* C15: the step of a frame whose body does not parse changes neither the
\* status, the transport, the retry delay and timer, the dedup window, the
\* buffer and its timer nor the handler invocations made; it leaves the
\* heartbeat timer armed.
C15_ParseErrorDropped ==
    [][h'.last = "parse_error" =>
          /\ connectionStatus' = connectionStatus
          /\ eventSource' = eventSource
          /\ retryDelay' = retryDelay
          /\ retryTimeout' = retryTimeout
          /\ lastEventIds' = lastEventIds
          /\ eventBuffer' = eventBuffer
          /\ debounceTimer' = debounceTimer
          /\ h'.dispatchCount = h.dispatchCount
          /\ h'.calls = <<>>
          /\ heartbeatTimeout' = "armed"]_vars

\* a frame that does not parse arrived while an event was buffered and an id
\* was in the window
C15_Witness ==
    /\ h.last = "parse_error"
    /\ eventBuffer # <<>>
    /\ lastEventIds # <<>>
    /\ heartbeatTimeout = "armed"

\* C16 (as stated): updateState with a key that is not a slice of the state
\* changes neither the state object nor the storage item, notifies no
\* listener and writes no cache.
C16_UnknownKeyNoop ==
    [][(g'.last = "update" /\ g'.key \notin OwnKeys) =>
          /\ dashboardState' = dashboardState
          /\ storage' = storage
          /\ g'.notified = <<>>
          /\ ~g'.saved]_vars

C18_CacheCurrent ==
    (g.last \in {"update", "merge"} /\ ~g.quotaExceeded) =>
        /\ storage \notin {NoItem, Corrupt}
        /\ storage.data = [k \in CacheKeys |-> dashboardState[k]]

\* what a call of loadFromCache does when a readable snapshot is used if and
\* only if its age is maxAge at most
LoadContract(maxAge) ==
    g'.last = "load" =>
        LET raw == storage
            usable == raw \notin {NoItem, Corrupt} /\ now - raw.timestamp <= maxAge
        IN  /\ g'.ret = usable
            /\ storage' = storage
            /\ usable =>
                   /\ \A k \in CacheKeys : dashboardState'[k] = raw.data[k]
                   /\ dashboardState'.lastUpdated = raw.timestamp
                   /\ \A k \in OwnKeys \ (CacheKeys \cup {"lastUpdated"}) :
                          dashboardState'[k] = dashboardState[k]
            /\ ~usable => dashboardState' = dashboardState

\* C19 (as stated): loadFromCache at page load returns true and hydrates the
\* cacheable slices and lastUpdated iff a snapshot is present, readable and
\* younger than 7 days; otherwise it returns false and changes nothing.
C19_HydratesIffYounger ==
    [][LoadContract(SEVEN_DAYS - 1)]_vars

\* C19 (amended): loadFromCache at page load returns true and hydrates the
\* cacheable slices and lastUpdated iff a snapshot is present, readable and
\* not older than 7 days; otherwise it returns false and changes nothing.
C19_HydratesUnlessOlder ==
    [][LoadContract(SEVEN_DAYS)]_vars

\* a snapshot written exactly 7 days before was hydrated
C19_Witness ==
    /\ g.last = "load"
    /\ g.ret
    /\ dashboardState.lastUpdated = PageLoadTime - SEVEN_DAYS
    /\ dashboardState.summary = FetchedSummary

RealtimeEvents == dashboardState.realtimeEvents

\* C20: every mergeRealtimeUpdate call puts the raw event in front of
\* realtimeEvents, keeping the entries held before in their order except the
\* last one when 50 were held, sets lastUpdated to the current time and
\* invokes the subscribed listeners once each; realtimeEvents never holds
\* more than 50 entries and is ordered newest first.
C20_RealtimeEventsRing ==
    /\ [][g'.last = "merge" =>
             /\ RealtimeEvents' # <<>>
             /\ Head(RealtimeEvents').type = g'.key
             /\ Head(RealtimeEvents').timestamp = now'
             /\ Head(RealtimeEvents').payload.latency_ms = g'.merges
             /\ Tail(RealtimeEvents') =
                    IF Len(RealtimeEvents) = REALTIME_EVENTS_MAX
                    THEN SubSeq(RealtimeEvents, 1, REALTIME_EVENTS_MAX - 1)
                    ELSE RealtimeEvents
             /\ dashboardState'.lastUpdated = now'
             /\ g'.notified = listeners
             /\ listeners' = listeners]_vars
    /\ [](/\ Len(RealtimeEvents) <= REALTIME_EVENTS_MAX
          /\ \A i, j \in 1..Len(RealtimeEvents) :
                 i < j => RealtimeEvents[i].timestamp > RealtimeEvents[j].timestamp)

\* the 52nd event was merged with a listener subscribed: the entries of the
\* first two are gone and the third is the last of 50
C20_Witness ==
    /\ g.last = "merge"
    /\ g.merges = 52
    /\ Len(RealtimeEvents) = REALTIME_EVENTS_MAX
    /\ RealtimeEvents[REALTIME_EVENTS_MAX].payload.latency_ms = 3
    /\ RealtimeEvents[1].payload.latency_ms = 52
    /\ g.notified = listeners
    /\ listeners # <<>>

\* a device_status event was merged into a summary that holds the counters
\* online and offline and a total
DeviceStatusMerged ==
    /\ g'.last = "merge"
    /\ g'.key = "device_status"
    /\ dashboardState.summary # Null
    /\ dashboardState.summary.devices.online # NoField
    /\ dashboardState.summary.devices.offline # NoField

\* online_percent in tenths of a percent
OnlinePercent(devices) ==
    IF devices.total # NoField /\ devices.total > 0
    THEN Round(devices.online * 1000, devices.total) ELSE 0

\* what the merge of a device_status event does to summary.devices when a
\* decrement is dec(_) and the percentage is written to the fields pct
DeviceContract(dec(_), pct) ==
    DeviceStatusMerged =>
        LET old == dashboardState.summary.devices
            new == dashboardState'.summary.devices
            st == g'.data.new_state
        IN  /\ st \in {"CRITICAL", "down"} =>
                   new.offline = old.offline + 1 /\ new.online = dec(old.online)
            /\ st \in {"OK", "up"} =>
                   new.online = old.online + 1 /\ new.offline = dec(old.offline)
            /\ st \notin {"CRITICAL", "down", "OK", "up"} =>
                   new.online = old.online /\ new.offline = old.offline
            /\ new.total = old.total
            /\ new.online_percent = OnlinePercent(new)
            /\ (old = Devices(10, 10, 0) /\ st = "CRITICAL") =>
                   new = [Devices(10, 9, 1) EXCEPT
                             !.online_percent = 900,
                             !.up_percent = IF "up_percent" \in pct THEN 900 ELSE @]

Minus1(x) == x - 1

FlooredMinus1(x) == IF x > 0 THEN x - 1 ELSE 0

AlertMerged == g'.last = "merge" /\ g'.key = "alert_created"

\* the counter a severity is counted in
Bucket(severity) ==
    IF severity \in {"CRITICAL", "Critical", "critical"} THEN "critical"
    ELSE IF severity \in {"WARNING", "Warning", "warning"} THEN "warning"
    ELSE "info"

\* C22: mergeRealtimeUpdate('alert_created', p) adds 1 to exactly one of
\* the counters critical, warning and info of a loaded summary, chosen by
\* p.severity without regard to case, info for a missing or unrecognized
\* severity, and puts exactly one record derived from p in front of the
\* recent_alerts of loaded topProblems, which keeps the 9 newest entries it
\* held and never holds more than 10 afterwards.
C22_AlertCreated ==
    [][AlertMerged =>
          /\ (dashboardState.summary # Null) =>
                 LET old == dashboardState.summary.active_alerts
                     new == dashboardState'.summary.active_alerts
                     b == Bucket(g'.data.severity)
                 IN  /\ new[b] = (IF old[b] = NoField THEN 0 ELSE old[b]) + 1
                     /\ \A c \in {"critical", "warning", "info"} \ {b} :
                            new[c] = old[c]
          /\ (dashboardState.topProblems # Null) =>
                 LET held == dashboardState.topProblems.recent_alerts
                     old == IF held = Null THEN <<>> ELSE held
                     new == dashboardState'.topProblems.recent_alerts
                 IN  /\ Len(new) = Min(Len(old) + 1, RECENT_ALERTS_MAX)
                     /\ new[1].device_ip = g'.data.device_ip
                     /\ new[1].severity =
                            IF g'.data.severity = NoString THEN "WARNING"
                            ELSE g'.data.severity
                     /\ new[1].time = now'
                     /\ Tail(new) = SubSeq(old, 1, Len(new) - 1)]_vars

\* the 11th alert, a critical one written "Critical", was counted and its
\* record replaced the oldest of 10 held
C22_Witness ==
    /\ g.last = "merge"
    /\ g.key = "alert_created"
    /\ g.merges = 11
    /\ g.data.severity = "Critical"
    /\ dashboardState.summary # Null
    /\ dashboardState.summary.active_alerts.critical = 1
    /\ dashboardState.topProblems # Null
    /\ Len(dashboardState.topProblems.recent_alerts) = RECENT_ALERTS_MAX
    /\ dashboardState.topProblems.recent_alerts[1].device_ip = 11
    /\ dashboardState.topProblems.recent_alerts[RECENT_ALERTS_MAX].device_ip = 2

\* C23: every updateState call with a slice key and every
\* mergeRealtimeUpdate call invokes, before it returns, the listeners that
\* are subscribed at that moment, once per registration and in subscription
\* order, each with the state as the call left it.
C23_NotifiesSubscribed ==
    [][g'.last \in {"update", "merge"} =>
          /\ g'.notified = listeners
          /\ listeners' = listeners
          /\ listeners # <<>> => g'.seen = dashboardState'
          /\ dashboardState'.lastUpdated = now']_vars

\* after three subscribe calls and the removal of the first registration, a
\* merge invoked the two listeners left, "other" before "render"
C23_Witness ==
    /\ g.last = "merge"
    /\ Len(g.fns) = 3
    /\ g.regs = <<2, 3>>
    /\ listeners = <<"other", "render">>
    /\ g.notified = listeners
    /\ g.seen = dashboardState
    /\ Len(dashboardState.realtimeEvents) = 1

\* the listeners registered by the subscribe calls in calls, in order
Registered(calls) == [i \in 1..Len(calls) |-> g.fns[calls[i]]]

\* C24 (as stated): calling the function a subscribe call returned removes
\* the registration made by that call and no other, and calling it again
\* changes nothing: the listeners held are, in subscription order, those of
\* the subscribe calls whose returned function has not been called.
C24_UnsubscribeOwnRegistration == listeners = Registered(g.regs)

\* C25: a frame callback that follows n >= 1 scheduleRender calls invokes
\* renderAll exactly once, with the state passed to the last of the calls;
\* at most one frame callback is pending at any time, and one is pending
\* exactly when calls were made since the last one.
C25_OneRenderPerFrame ==
    /\ [][rh'.last = "frame" =>
             /\ rh'.batched >= 1
             /\ rh'.renders = 1
             /\ rh'.rendered = rh.passed]_vars
    /\ [](/\ animationFrames <= 1
          /\ (animationFrames = 1) = (rh.calls >= 1)
          /\ (animationFrames = 1) = renderScheduled)

\* five calls, the fifth with state 2, were followed by a frame callback
\* that rendered once, with state 2, and none is pending
C25_Witness ==
    /\ rh.last = "frame"
    /\ rh.batched = 5
    /\ rh.renders = 1
    /\ rh.rendered = rh.passed
    /\ rh.rendered = 2
    /\ animationFrames = 0

\* the slices refreshAll fetches
Slices(state) == [k \in CacheKeys |-> state[k]]

\* C27: in a full refresh a response that wins the race against its 15 s
\* timer replaces its own slice and no other; a fetch that fails, a timer
\* that fires first and a response that arrives after the timer leave all
\* six slices as they were; and none of these changes the race of another
\* slice, which still ends by its own response.
C27_FetchesIndependent ==
    [][g'.last \in {"fetch_ok", "fetch_failed", "fetch_timeout", "fetch_late"} =>
          /\ Slices(dashboardState') =
                 IF g'.last = "fetch_ok"
                 THEN [Slices(dashboardState) EXCEPT ![g'.key] = Response(g'.key)]
                 ELSE Slices(dashboardState)
          /\ fetches' # <<>> =>
                 \A k \in CacheKeys \ {g'.key} : fetches'[1][k] = fetches[1][k]]_vars

\* the summary fetch ran into its timer and answered afterwards, the
\* inventory fetch failed, and the other four slices hold their responses:
\* summary still has the value of the snapshot, inventory is still null
C27_Witness ==
    /\ g.last = "fetch_late"
    /\ g.key = "summary"
    /\ fetches = <<>>
    /\ dashboardState.summary = FetchedSummary
    /\ dashboardState.inventory = Null
    /\ \A k \in CacheKeys \ {"summary", "inventory"} :
           dashboardState[k] = Response(k)

\* the age of the data the visibilitychange listener computes
DataAge == now - (IF dashboardState.lastUpdated # NoDate
                  THEN dashboardState.lastUpdated ELSE 0)

\* C26: when the tab becomes visible, refreshAll is called once if the last
\* update is more than 30 s old (or there was none) and not at all
\* otherwise; and if the status in the store is DISCONNECTED, one polling
\* interval is active afterwards: a new one if none was, the same if one was.
C26_VisibleRefreshesAndPolls ==
    [][g'.last = "visible" =>
          /\ Len(fetches') = Len(fetches) + (IF DataAge > STALE_AFTER THEN 1 ELSE 0)
          /\ loadingResets' =
                 loadingResets + (IF DataAge > STALE_AFTER THEN 1 ELSE 0)
          /\ dashboardState.connectionStatus = DISCONNECTED =>
                 /\ pollingInterval' = "armed"
                 /\ activeIntervals' = 1
                 /\ activeIntervals' =
                        activeIntervals + (IF pollingInterval = "null" THEN 1 ELSE 0)]_vars

\* the tab became visible 30,001 ms after the page was loaded and, with the
\* status DISCONNECTED, started a refresh and the polling loop
C26_Witness ==
    /\ g.last = "visible"
    /\ now = PageLoadTime + STALE_AFTER + 1
    /\ dashboardState.connectionStatus = DISCONNECTED
    /\ Len(fetches) = 1
    /\ dashboardState.lastUpdated = now
    /\ pollingInterval = "armed"
    /\ activeIntervals = 1

\* C28 (as stated): in every execution in which, after initSSE, the status
\* stays other than CONNECTED from some point on, the polling interval
\* triggers a full refresh again and again.
C28_KeepsRefreshing ==
    <>[](h.initCount > 0 /\ connectionStatus # CONNECTED) => []<>(h.last = "poll")

\* the changes of status the specification's state machine has
AllowedChanges ==
    {<<DISCONNECTED, CONNECTING>>, <<CONNECTING, CONNECTED>>,
     <<CONNECTING, DISCONNECTED>>, <<CONNECTED, DISCONNECTED>>}

\* C29 (as stated): every change of connectionStatus a call or callback
\* makes is DISCONNECTED -> CONNECTING, CONNECTING -> CONNECTED,
\* CONNECTING -> DISCONNECTED or CONNECTED -> DISCONNECTED.
C29_StatusTransitions ==
    \A i \in 1..Len(h.changes) : h.changes[i] \in AllowedChanges

\* retry timers the browser holds: the one retryTimeout refers to and those
\* whose handle was overwritten
PendingRetryTimers ==
    (IF retryTimeout = "armed" THEN 1 ELSE 0) + leakedRetry.stale + leakedRetry.fresh

\* the timers behind a handle that is cleared before every arming
PendingTimers(handle) == IF handle = "armed" THEN 1 ELSE 0

\* C30 (as stated): at any time at most one retry timer, at most one
\* heartbeat timer and at most one debounce timer is pending.
C30_OneTimerPerConcern ==
    /\ PendingRetryTimers <= 1
    /\ PendingTimers(heartbeatTimeout) <= 1
    /\ PendingTimers(debounceTimer) <= 1

\* the counters of summary.devices that hold a number
DeviceCounters(devices) ==
    {devices[f] : f \in {"online", "offline", "up", "down"}} \ {NoField}

\* a counter at 0 that a device_status event decrements stays at 0
ZeroStaysZero ==
    (g'.last = "merge" /\ g'.key = "device_status"
        /\ dashboardState.summary # Null) =>
        LET old == dashboardState.summary.devices
            new == dashboardState'.summary.devices
            st == g'.data.new_state
        IN  /\ st \in {"CRITICAL", "down"} =>
                   /\ old.online = 0 => new.online = 0
                   /\ old.up = 0 => new.up = 0
            /\ st \in {"OK", "up"} =>
                   /\ old.offline = 0 => new.offline = 0
                   /\ old.down = 0 => new.down = 0

\* C31: after any sequence of device_status merges on fetched counters none
\* of the counters online, offline, up and down is negative, and a decrement
\* applied to a counter that is 0 leaves it at 0.
C31_CountersNeverNegative ==
    /\ [](dashboardState.summary # Null =>
              \A c \in DeviceCounters(dashboardState.summary.devices) : c >= 0)
    /\ [][ZeroStaysZero]_vars

\* two down events were merged into counters online <= 1 and offline = 1:
\* the second one found online at 0
C31_Witness ==
    /\ g.last = "merge"
    /\ g.key = "device_status"
    /\ g.merges = 2
    /\ dashboardState.summary # Null
    /\ dashboardState.summary.devices.online = 0
    /\ dashboardState.summary.devices.offline = 3

\* a device_status event with state st applied on top of a summary whose
\* devices hold online, offline and total
PushedOn(summary, st) ==
    IF summary = Null THEN Null
    ELSE LET old == summary.devices
             counted ==
                 IF st = "CRITICAL"
                 THEN [old EXCEPT !.offline = @ + 1, !.online = FlooredMinus1(@)]
                 ELSE IF st = "OK"
                 THEN [old EXCEPT !.online = @ + 1, !.offline = FlooredMinus1(@)]
                 ELSE old
         IN  [summary EXCEPT !.devices =
                 [counted EXCEPT !.online_percent = OnlinePercent(counted),
                                 !.up_percent = OnlinePercent(counted)]]

RECURSIVE LastWriteWins(_, _)
\* the summary slice after the first n of the writes: a poll response
\* replaces it, a pushed event changes the value it finds
LastWriteWins(writes, n) ==
    IF n = 0 THEN Null
    ELSE IF writes[n].by = "poll" THEN writes[n].summary
    ELSE PushedOn(LastWriteWins(writes, n - 1), writes[n].state)

\* C32: the summary slice is what the writes give when each is applied in
\* the order it was made: a poll response applied after a merge replaces the
\* slice with the fetched value, a merge applied after a poll response
\* changes the fetched value, and no interleaving gives anything else.
C32_LastWriteWins ==
    dashboardState.summary = LastWriteWins(g.writes, Len(g.writes))

\* a response, an event, a second response and a second event were applied
\* in this order
C32_Witness ==
    /\ Len(g.writes) = 4
    /\ g.writes[1].by = "poll"
    /\ g.writes[2].by = "push" /\ g.writes[2].state = "CRITICAL"
    /\ g.writes[3] = [by |-> "poll", summary |-> DeviceSummary(Devices(3, 0, 3))]
    /\ g.writes[4].by = "push" /\ g.writes[4].state = "OK"
    /\ dashboardState.summary.devices =
           [Devices(3, 1, 2) EXCEPT !.online_percent = 333, !.up_percent = 333]

\* C33: between callbacks the connectionStatus slice of the store equals the
\* status of the connection manager, so that the visibility handler tests
\* the manager's status.
C33_StoreMirrorsStatus ==
    viewState.connectionStatus = connectionStatus

\* the manager went through CONNECTING and CONNECTED and is down again,
\* and the store says so
C33_Witness ==
    /\ h.last = "error"
    /\ Len(h.changes) = 1
    /\ h.changes[1] = <<CONNECTED, DISCONNECTED>>
    /\ viewState.connectionStatus = DISCONNECTED

\* C34: between callbacks, while the status is CONNECTED the heartbeat
\* timer is pending, and while it is DISCONNECTED no heartbeat timer is
\* pending and no transport is open or opening.
C34_HeartbeatFollowsStatus ==
    /\ connectionStatus = CONNECTED => PendingTimers(heartbeatTimeout) = 1
    /\ connectionStatus = DISCONNECTED =>
           PendingTimers(heartbeatTimeout) = 0 /\ liveTransports = 0

\* the heartbeat timer of an open connection fired: the status is
\* DISCONNECTED, the timer is gone and the transport is closed
C34_Witness ==
    /\ h.last = "heartbeat"
    /\ h.changes = <<(<<CONNECTED, DISCONNECTED>>)>>
    /\ heartbeatTimeout = "dead"
    /\ liveTransports = 0

\* the statuses the step notified, in order
Notified == [i \in 1..Len(h'.changes) |-> h'.changes[i][2]]

\* C35: a step that notifies CONNECTING and nothing else calls neither
\* setInterval nor clearInterval, and a polling loop that is running stays
\* the same interval (no clearInterval, no second setInterval) through every
\* step that notifies no CONNECTED, the DISCONNECTED notifications of later
\* failures included.
C35_ConnectingKeepsPolling ==
    [][/\ (Notified # <<>> /\ Range(Notified) = {CONNECTING}) =>
              /\ h'.intervalOps = <<>>
              /\ pollingInterval' = pollingInterval
              /\ activeIntervals' = activeIntervals
       /\ (pollingInterval = "armed" /\ CONNECTED \notin Range(Notified)) =>
              /\ h'.intervalOps = <<>>
              /\ pollingInterval' = "armed"
              /\ activeIntervals' = activeIntervals]_vars

\* the third failure in a row was notified as DISCONNECTED after two retry
\* cycles, and the polling loop started at the first one is still the only
\* one
C35_Witness ==
    /\ h.last = "error"
    /\ h.failures = 3
    /\ h.changes = <<(<<CONNECTING, DISCONNECTED>>)>>
    /\ h.intervalOps = <<>>
    /\ pollingInterval = "armed"
    /\ activeIntervals = 1

\* a flush in which a handler invocation threw
FlushThrew == h'.last = "flush" /\ h'.threw # {}

C37_AllNotifiedOnce ==
    [][g'.last \in {"update", "merge"} => g'.notified = listeners]_vars

\* the counters of a device record add up: online + offline = total
AddsUp(devices) ==
    /\ devices.total # NoField
    /\ devices.online # NoField
    /\ devices.offline # NoField
    /\ devices.online + devices.offline = devices.total

\* C38 (as stated): a device_status merge into a summary whose counters add
\* up (online + offline = total, so online <= total) leaves online at most
\* total and online_percent between 0 and 100.
C38_OnlineWithinTotal ==
    [][(DeviceStatusMerged /\ AddsUp(dashboardState.summary.devices)) =>
          LET new == dashboardState'.summary.devices
          IN  /\ new.online <= new.total
              /\ new.online_percent >= 0
              /\ new.online_percent <= 1000]_vars

\* C39 (as stated): for an alert_created event merged into a loaded summary
\* and loaded topProblems, the counter that is incremented is the one of the
\* severity stored in the record put in front of recent_alerts, also for a
\* payload without severity.
C39_CounterMatchesRecord ==
    [][(AlertMerged /\ dashboardState.summary # Null
           /\ dashboardState.topProblems # Null) =>
          LET old == dashboardState.summary.active_alerts
              new == dashboardState'.summary.active_alerts
              record == dashboardState'.topProblems.recent_alerts[1]
          IN  \A c \in {"critical", "warning", "info"} :
                  new[c] # old[c] => c = Bucket(record.severity)]_vars

\* C40 (as stated): at most one progress polling interval is active at any
\* time, and no progress poll fires after stopProgressPolling until
\* polling is started again, whatever the order of the response to the
\* active-scan check, the Start Scan clicks and the scan-start response.
C40_OneProgressInterval ==
    /\ [](scanPage.intervals <= 1)
    /\ [][scanPage'.last = "poll" => ~scanPage.stopped]_vars


====
